---- MODULE Spec2Model ----
(***************************************************************************)
(* Storage-layer core of WhatTheGQlee/test_15445: the LRU-K replacer, the  *)
(* extendible hash table used as page table, and the buffer pool manager.  *)
(* Every operation runs under the component's single mutex, so each call   *)
(* is one atomic action.                                                   *)
(***************************************************************************)
EXTENDS Integers, Sequences, FiniteSets, TLC

\* ------------------------------------------------------------------ bounds
PoolSize == 2        \* pool_size_ / replacer_size_ (constructor argument)
LRUK_K == 2          \* k_ (constructor argument); the lists need k_ >= 2
BucketSize == 1      \* bucket_size_ of the page table (constructor argument)
MaxPages == 3        \* NewPgImp stops allocating at this next_page_id_
MaxCalls == 7        \* calls made on the component in one behaviour
MaxData == 1         \* page contents are 0 (zeroed) .. MaxData
MaxAccesses == 8            \* RecordAccess calls of a replacer scenario
ScenarioReplacerSize == 3   \* num_frames of the replacer of a scenario
MaxKey == 4                 \* keys of the hash table on its own are 0 .. MaxKey
LeafMaxSize == 3            \* leaf_max_size of the B+ tree
InternalMaxSize == 3        \* internal_max_size of the B+ tree
MaxTreeKey == 6             \* keys of the B+ tree are 1 .. MaxTreeKey
MaxTreePageId == 8          \* the B+ tree allocates page ids up to this one
MaxIterKey == 3             \* keys of the tree an iterator walks are 1 .. MaxIterKey
MaxPosition == 3            \* operator++ is called while position_ is below this
DeepK == 3                  \* k_ of a replacer whose frames stay below k_ over several accesses
MaxConcKey == 6             \* keys of the concurrent callers are 1 .. MaxConcKey

INVALID_PAGE_ID == -1
HEADER_PAGE_ID == 0
Null == -1          \* a nullptr result of NewPgImp / FetchPgImp
NoData == -1        \* no bytes recorded

Frames == 0 .. (PoolSize - 1)
\* frame ids the replacer can be handed: PoolSize passes its range check,
\* PoolSize + 1 does not
FrameArgs == 0 .. (PoolSize + 1)
PageIds == 0 .. (MaxPages - 1)
Data == 0 .. MaxData

\* ------------------------------------------------------- sequence helpers
RECURSIVE EraseFrom(_, _)
\* std::list::erase of the (single) node holding x
EraseFrom(s, x) ==
  IF s = <<>> THEN <<>>
  ELSE IF Head(s) = x THEN Tail(s)
  ELSE <<Head(s)>> \o EraseFrom(Tail(s), x)

InSeq(s, x) == \E i \in 1 .. Len(s) : s[i] = x

\* first index of x in s, 0 when absent
FirstPos(s, x) ==
  IF InSeq(s, x) THEN CHOOSE i \in 1 .. Len(s) : s[i] = x /\ \A j \in 1 .. (i - 1) : s[j] # x
  ELSE 0

Count(s, x) == Cardinality({i \in 1 .. Len(s) : s[i] = x})

RECURSIVE DropAll(_, _)
DropAll(s, x) ==
  IF s = <<>> THEN <<>>
  ELSE IF Head(s) = x THEN DropAll(Tail(s), x)
  ELSE <<Head(s)>> \o DropAll(Tail(s), x)

\* std::unordered_map as a function on its key set
MapPut(m, k, v) == [x \in DOMAIN m \cup {k} |-> IF x = k THEN v ELSE m[x]]

MapErase(m, k) == [x \in DOMAIN m \ {k} |-> m[x]]

RECURSIVE Pow2(_)
Pow2(n) == IF n = 0 THEN 1 ELSE 2 * Pow2(n - 1)

\* ============================================================ LRUKReplacer
\* A replacer is the record
\*   [replacer_size_, k_, entries_, inf_, kth_, curr_size_]
\* entries_ is a function from the tracked frame ids to
\* [hint_count_, is_evictable_]; the list iterator
\* pos_ is the entry's position in inf_ or kth_ (index 1 is the list front).

\* the evictable bit of a freshly created entry
DefaultEvictable == FALSE

NewEntry == [hint_count_ |-> 0, is_evictable_ |-> DefaultEvictable]

\* LRUKReplacer(num_frames, k)
ReplacerNew(num_frames, k) ==
  [replacer_size_ |-> num_frames, k_ |-> k, entries_ |-> <<>>,
   inf_ |-> <<>>, kth_ |-> <<>>, curr_size_ |-> 0]

\* the replacer the buffer pool manager constructs
ReplacerInit == ReplacerNew(PoolSize, LRUK_K)

Tracked(r, f) == f \in DOMAIN r.entries_

IsEvictable(r, f) == Tracked(r, f) /\ r.entries_[f].is_evictable_

\* the range check shared by RecordAccess, SetEvictable and Remove
BadFrameId(r, frame_id) == frame_id > r.replacer_size_

KthAfterAccessStays(kth, frame_id) == kth

\* kth_ after an access to a frame that already has k_ or more accesses
KthAfterAccess(kth, frame_id) == <<frame_id>> \o EraseFrom(kth, frame_id)

\* whether RecordAccess counts a first access in curr_size_
CountsFirstAccess == TRUE

RecordAccess(r, frame_id) ==
  IF BadFrameId(r, frame_id) THEN r
  ELSE
    LET old == IF Tracked(r, frame_id) THEN r.entries_[frame_id] ELSE NewEntry
        nums_hint == old.hint_count_ + 1
        e == [old EXCEPT !.hint_count_ = nums_hint]
        r1 == [r EXCEPT !.entries_ = MapPut(@, frame_id, e)]
    IN IF nums_hint = 1
         THEN [r1 EXCEPT !.curr_size_ = IF CountsFirstAccess THEN @ + 1 ELSE @,
                         !.inf_ = <<frame_id>> \o @]
       ELSE IF nums_hint = r.k_
         THEN [r1 EXCEPT !.inf_ = EraseFrom(@, frame_id),
                         !.kth_ = <<frame_id>> \o @]
       ELSE IF nums_hint > r.k_
         THEN [r1 EXCEPT !.kth_ = KthAfterAccess(@, frame_id)]
       ELSE r1

SetEvictable(r, frame_id, set_evictable) ==
  IF BadFrameId(r, frame_id) THEN r
  ELSE IF ~Tracked(r, frame_id) \/ r.entries_[frame_id].is_evictable_ = set_evictable THEN r
  ELSE IF ~set_evictable
    THEN [r EXCEPT !.curr_size_ = @ - 1, !.entries_[frame_id].is_evictable_ = FALSE]
  ELSE [r EXCEPT !.curr_size_ = @ + 1, !.entries_[frame_id].is_evictable_ = TRUE]

ScanFront(r, list) ==
  LET idx == {i \in 1 .. Len(list) : IsEvictable(r, list[i])}
  IN IF idx = {} THEN -1
     ELSE list[CHOOSE i \in idx : \A j \in idx : i <= j]

\* scan a list from its back (rbegin) for the first evictable frame; -1 if none
ScanBack(r, list) ==
  LET idx == {i \in 1 .. Len(list) : IsEvictable(r, list[i])}
  IN IF idx = {} THEN -1
     ELSE list[CHOOSE i \in idx : \A j \in idx : j <= i]

\* the frame Evict picks, -1 when it returns false
EvictVictim(r) ==
  LET a == ScanBack(r, r.inf_)
  IN IF a # -1 THEN a ELSE ScanBack(r, r.kth_)

\* the replacer after Evict
Evict(r) ==
  LET v == EvictVictim(r)
  IN IF v = -1 THEN r
     ELSE [r EXCEPT !.inf_ = EraseFrom(@, v), !.kth_ = EraseFrom(@, v),
                    !.curr_size_ = @ - 1, !.entries_ = MapErase(@, v)]

Remove(r, frame_id) ==
  IF BadFrameId(r, frame_id) THEN r
  ELSE IF ~Tracked(r, frame_id) \/ ~r.entries_[frame_id].is_evictable_ THEN r
  ELSE LET r1 == IF r.entries_[frame_id].hint_count_ < r.k_
                   THEN [r EXCEPT !.inf_ = EraseFrom(@, frame_id)]
                 ELSE [r EXCEPT !.kth_ = EraseFrom(@, frame_id)]
       IN [r1 EXCEPT !.curr_size_ = @ - 1, !.entries_ = MapErase(@, frame_id)]

Size(r) == r.curr_size_

\* ===================================================== ExtendibleHashTable
\* A table is the record [global_depth_, dir_, bkts, num_buckets_]: dir_[i + 1]
\* is directory slot i and holds an index into bkts (the shared_ptr<Bucket>
\* it refers to); a bucket is [depth_, list_] with list_ a sequence of
\* <<key, value>> pairs in insertion order.

\* std::hash<int> is the identity on the non-negative keys used here
Hash(key) == key

TableInit ==
  [global_depth_ |-> 0, dir_ |-> <<1>>,
   bkts |-> <<[depth_ |-> 0, list_ |-> <<>>]>>, num_buckets_ |-> 1]

IndexOf(h, key) == Hash(key) % Pow2(h.global_depth_)

BucketOf(h, key) == h.bkts[h.dir_[IndexOf(h, key) + 1]]

BucketHas(b, key) == \E i \in 1 .. Len(b.list_) : b.list_[i][1] = key

BucketGet(b, key) == b.list_[CHOOSE i \in 1 .. Len(b.list_) : b.list_[i][1] = key][2]

BucketIsFull(b) == Len(b.list_) >= BucketSize

BucketInsertAppends(b, key, value) == [b EXCEPT !.list_ = Append(@, <<key, value>>)]

BucketInsert(b, key, value) ==
  IF BucketHas(b, key)
    THEN [b EXCEPT !.list_ = [i \in 1 .. Len(b.list_) |->
                     IF b.list_[i][1] = key THEN <<key, value>> ELSE b.list_[i]]]
  ELSE IF ~BucketIsFull(b) THEN [b EXCEPT !.list_ = Append(@, <<key, value>>)]
  ELSE b

RECURSIVE ListRemove(_, _)
ListRemove(l, key) ==
  IF l = <<>> THEN <<>>
  ELSE IF Head(l)[1] = key THEN Tail(l)
  ELSE <<Head(l)>> \o ListRemove(Tail(l), key)

BucketRemove(b, key) == [b EXCEPT !.list_ = ListRemove(@, key)]

HTFind(h, key) == BucketHas(BucketOf(h, key), key)

HTGet(h, key) == BucketGet(BucketOf(h, key), key)

HTRemove(h, key) ==
  [h EXCEPT !.bkts[h.dir_[IndexOf(h, key) + 1]] = BucketRemove(@, key)]

ExpansionMirrored(h) ==
  [h EXCEPT !.dir_ = [i \in 1 .. 2 * Len(h.dir_) |->
                       IF i <= Len(h.dir_) THEN h.dir_[i] ELSE h.dir_[2 * Len(h.dir_) + 1 - i]],
            !.global_depth_ = @ + 1]

Expansion(h) ==
  [h EXCEPT !.dir_ = h.dir_ \o h.dir_, !.global_depth_ = @ + 1]

SelectItemsAll(l, localmask, bit) == l

RECURSIVE SelectItems(_, _, _)
\* the items of l whose hash has bit localmask set (bit = 1) or clear (bit = 0)
SelectItems(l, localmask, bit) ==
  IF l = <<>> THEN <<>>
  ELSE LET rest == SelectItems(Tail(l), localmask, bit)
       IN IF ((Hash(Head(l)[1]) \div localmask) % 2) = bit
            THEN <<Head(l)>> \o rest ELSE rest

\* split the bucket with index bi, reached through key: b0 takes the place of
\* the old bucket object, b1 is appended
RedistributeBucket(h, bi, key) ==
  LET bucket == h.bkts[bi]
      old_depth == bucket.depth_
      localmask == Pow2(old_depth)
      b0 == [depth_ |-> old_depth + 1, list_ |-> SelectItems(bucket.list_, localmask, 0)]
      b1 == [depth_ |-> old_depth + 1, list_ |-> SelectItems(bucket.list_, localmask, 1)]
      i1 == Len(h.bkts) + 1
      start == Hash(key) % localmask
  IN [h EXCEPT !.num_buckets_ = @ + 1,
               !.bkts = Append([h.bkts EXCEPT ![bi] = b0], b1),
               !.dir_ = [s \in 1 .. Len(h.dir_) |->
                          IF (s - 1) >= start /\ ((s - 1) - start) % localmask = 0
                            THEN (IF (((s - 1) \div localmask) % 2) = 1 THEN i1 ELSE bi)
                          ELSE h.dir_[s]]]

RECURSIVE SplitWhileFull(_, _)
\* the while loop of Insert
SplitWhileFull(h, key) ==
  LET bi == h.dir_[IndexOf(h, key) + 1]
  IN IF ~BucketIsFull(h.bkts[bi]) THEN h
     ELSE IF h.bkts[bi].depth_ = h.global_depth_
       THEN SplitWhileFull(RedistributeBucket(Expansion(h), bi, key), key)
     ELSE SplitWhileFull(RedistributeBucket(h, bi, key), key)

HTInsert(h, key, value) ==
  IF HTFind(h, key)
    THEN [h EXCEPT !.bkts[h.dir_[IndexOf(h, key) + 1]] = BucketInsert(@, key, value)]
  ELSE LET h1 == SplitWhileFull(h, key)
       IN [h1 EXCEPT !.bkts[h1.dir_[IndexOf(h1, key) + 1]] = BucketInsert(@, key, value)]

\* number of key/value pairs stored
RECURSIVE SumLens(_)
SumLens(bs) == IF bs = <<>> THEN 0 ELSE Len(Head(bs).list_) + SumLens(Tail(bs))

HTSize(h) == SumLens(h.bkts)

\* ================================================================= BPlusTree
\* A tree is the record [root_page_id_, pages, next_page_id_, header_,
\* pin_count_, deleted_, thrown]: pages maps the id of every page the tree
\* allocated and did not delete to its node, next_page_id_ is the id the next
\* NewPage returns, header_ is the root id recorded in the header page,
\* pin_count_ maps the header page and every page of pages to the pin count
\* of its frame, deleted_ is the deleted-page set of the running operation,
\* and thrown tells that the operation threw.  A node is [page_type_, parent_page_id_, next_page_id_,
\* max_size_, array_] with array_ the sequence of <<key, value>> slots
\* (slot i of the code is array_[i + 1]; its size is Len(array_)).
LEAF_PAGE == "LEAF_PAGE"
INTERNAL_PAGE == "INTERNAL_PAGE"

TreeInit ==
  [root_page_id_ |-> INVALID_PAGE_ID, pages |-> <<>>, next_page_id_ |-> HEADER_PAGE_ID + 1,
   header_ |-> INVALID_PAGE_ID, pin_count_ |-> [p \in {HEADER_PAGE_ID} |-> 0],
   deleted_ |-> {}, thrown |-> FALSE]

IsEmpty(t) == t.root_page_id_ = INVALID_PAGE_ID

\* BPlusTreePage
IsLeafPage(n) == n.page_type_ = LEAF_PAGE
IsRootPage(n) == n.parent_page_id_ = INVALID_PAGE_ID
GetSize(n) == Len(n.array_)
GetMaxSize(n) == n.max_size_
LeafMinSize(max_size) == max_size \div 2
InternalMinSize(max_size) == (max_size + 1) \div 2
GetMinSize(n) == IF IsLeafPage(n) THEN LeafMinSize(n.max_size_) ELSE InternalMinSize(n.max_size_)
KeyAt(n, index) == n.array_[index + 1][1]
ValueAt(n, index) == n.array_[index + 1][2]

\* s with e put at 0-based position i
InsertAt(s, i, e) == SubSeq(s, 1, i) \o <<e>> \o SubSeq(s, i + 1, Len(s))

\* s without its 0-based position i
RemoveAt(s, i) == SubSeq(s, 1, i) \o SubSeq(s, i + 2, Len(s))

MinOf(S) == CHOOSE x \in S : \A y \in S : x <= y

\* ---- BPlusTreeLeafPage
LeafPageInit(parent_id, max_size) ==
  [page_type_ |-> LEAF_PAGE, parent_page_id_ |-> parent_id,
   next_page_id_ |-> INVALID_PAGE_ID, max_size_ |-> max_size, array_ |-> <<>>]

\* index of the first pair whose key is not below key
LeafLowerBound(arr, key) == Cardinality({i \in 1 .. Len(arr) : arr[i][1] < key})

LeafHas(arr, key) == \E i \in 1 .. Len(arr) : arr[i][1] = key

LeafInsert(arr, key, value) ==
  IF LeafHas(arr, key) THEN arr ELSE InsertAt(arr, LeafLowerBound(arr, key), <<key, value>>)

LeafRemove(arr, key) ==
  IF LeafHas(arr, key) THEN RemoveAt(arr, LeafLowerBound(arr, key)) ELSE arr

\* how many pairs a leaf keeps when it splits
LeafSplitAt(n) == GetMinSize(n)

\* ---- BPlusTreeInternalPage
InternalPageInit(parent_id, max_size) ==
  [page_type_ |-> INTERNAL_PAGE, parent_page_id_ |-> parent_id,
   next_page_id_ |-> INVALID_PAGE_ID, max_size_ |-> max_size, array_ |-> <<>>]

FindIndex(arr, value) ==
  IF \E i \in 1 .. Len(arr) : arr[i][2] = value
    THEN MinOf({i \in 1 .. Len(arr) : arr[i][2] = value}) - 1
    ELSE -1

\* ShiftLeft() is called without an argument to drop slot 0
ShiftLeftDefault == 0

ShiftLeft(arr, index) == RemoveAt(arr, index)

ShiftRight(arr) == <<arr[1]>> \o arr

RECURSIVE BinarySearch(_, _, _, _)
BinarySearch(arr, key, left, right) ==
  IF left < right
    THEN LET mid == (left + right) \div 2
         IN IF key <= arr[mid + 1][1]
              THEN BinarySearch(arr, key, left, mid)
              ELSE BinarySearch(arr, key, mid + 1, right)
    ELSE left

LowerBoundFirst(arr, key) == 1

LowerBound(arr, key) == BinarySearch(arr, key, 1, Len(arr))

InternalInsert(arr, key, value) ==
  LET index == LowerBound(arr, key)
  IN IF index < Len(arr) /\ key = arr[index + 1][1] THEN arr
     ELSE InsertAt(arr, IF index > Len(arr) THEN Len(arr) ELSE index, <<key, value>>)

\* the vector Split partitions: the max_size slots with the new pair put in
SplitVec(n, key, value) == InsertAt(n.array_, LowerBound(n.array_, key), <<key, value>>)

InternalSplitAtOne(n) == 1

\* how many slots an internal page keeps when it splits
InternalSplitAt(n) == GetMinSize(n)

IsSafeNever(n, op) == FALSE

IsSafeAlways(n, op) == TRUE

\* ---- BPlusTree
\* IsSafe(page, op) for op INSERT and REMOVE
IsSafe(n, op) ==
  IF op = "INSERT"
    THEN (IF IsLeafPage(n) THEN GetSize(n) < GetMaxSize(n) - 1 ELSE GetSize(n) < GetMaxSize(n))
    ELSE GetSize(n) > GetMinSize(n)

\* the child GetLeafPage descends to
ChildFor(n, key) ==
  LET above == {i \in 1 .. GetSize(n) - 1 : KeyAt(n, i) > key}
  IN IF above = {} THEN ValueAt(n, GetSize(n) - 1) ELSE ValueAt(n, MinOf(above) - 1)

RECURSIVE LeafFrom(_, _, _)
LeafFrom(t, page_id, key) ==
  IF IsLeafPage(t.pages[page_id]) THEN page_id
  ELSE LeafFrom(t, ChildFor(t.pages[page_id], key), key)

\* the leaf GetLeafPage returns
GetLeafPage(t, key) == LeafFrom(t, t.root_page_id_, key)

RECURSIVE HeldFrom(_, _, _, _, _)
\* the page set of the pessimistic descent: every page below the last safe one
HeldFrom(t, page_id, key, op, held) ==
  LET n == t.pages[page_id]
      held1 == (IF IsSafe(n, op) THEN {} ELSE held) \cup {page_id}
  IN IF IsLeafPage(n) THEN held1 ELSE HeldFrom(t, ChildFor(n, key), key, op, held1)

\* the pages of the transaction's page set when GetLeafPage returns
PageSet(t, key, op) ==
  IF IsSafe(t.pages[GetLeafPage(t, key)], op) THEN {GetLeafPage(t, key)}
  ELSE HeldFrom(t, t.root_page_id_, key, op, {})

\* ---- the buffer pool as the tree uses it: it holds every page, so NewPage
\* and FetchPage never fail and no page is evicted
\* NewPage(&page_id): the page is allocated with the next id and pinned once
NewPage(t, node) ==
  [t EXCEPT !.next_page_id_ = @ + 1,
            !.pages = MapPut(@, t.next_page_id_, node),
            !.pin_count_ = MapPut(@, t.next_page_id_, 1)]

\* FetchPage(page_id) of a resident page
FetchPage(t, page_id) ==
  IF page_id \in DOMAIN t.pin_count_ THEN [t EXCEPT !.pin_count_[page_id] = @ + 1] ELSE t

UnpinPageSkipped(t, page_id) == t

\* UnpinPage(page_id, is_dirty): refused when the page is not resident or
\* not pinned
UnpinPage(t, page_id) ==
  IF page_id \in DOMAIN t.pin_count_ /\ t.pin_count_[page_id] > 0
    THEN [t EXCEPT !.pin_count_[page_id] = @ - 1] ELSE t

\* FetchPage of every page of S / UnpinPage of every page of S
FetchPages(t, S) ==
  [t EXCEPT !.pin_count_ = [p \in DOMAIN @ |-> IF p \in S THEN @[p] + 1 ELSE @[p]]]

UnpinPages(t, S) ==
  [t EXCEPT !.pin_count_ = [p \in DOMAIN @ |-> IF p \in S /\ @[p] > 0 THEN @[p] - 1 ELSE @[p]]]

\* UpdateRootPageId(insert_record): the header page records root_page_id_
UpdateRootPageId(t) ==
  UnpinPage([FetchPage(t, HEADER_PAGE_ID) EXCEPT !.header_ = t.root_page_id_], HEADER_PAGE_ID)

RECURSIVE SetParents(_, _, _)
\* the loop of UpdateChildNode: each child is fetched, re-parented, unpinned
SetParents(t, children, parent_id) ==
  IF children = <<>> THEN t
  ELSE LET child == Head(children)
           t1 == [FetchPage(t, child) EXCEPT !.pages[child].parent_page_id_ = parent_id]
       IN SetParents(UnpinPage(t1, child), Tail(children), parent_id)

UpdateChildNodeSkipped(t, page_id, begin, end) == t

\* UpdateChildNode(node, begin, end)
UpdateChildNode(t, page_id, begin, end) ==
  LET arr == t.pages[page_id].array_
  IN SetParents(t, [i \in 1 .. end - begin |-> arr[begin + i][2]], page_id)

Throw(t) == [t EXCEPT !.thrown = TRUE]

\* StartNewTree: GetLeafPage on an empty tree for an INSERT
StartNewTree(t, leaf_max_size) ==
  LET t1 == NewPage(t, LeafPageInit(INVALID_PAGE_ID, leaf_max_size))
      t2 == UpdateRootPageId([t1 EXCEPT !.root_page_id_ = t.next_page_id_])
  IN UnpinPage(t2, t2.root_page_id_)

RECURSIVE InsertInParent(_, _, _, _, _, _)
InsertInParent(t, left_id, right_id, key0, held, internal_max_size) ==
  IF IsRootPage(t.pages[left_id])
    THEN LET root_id == t.next_page_id_
             root_node == [InternalPageInit(INVALID_PAGE_ID, internal_max_size)
                             EXCEPT !.array_ = <<<<0, left_id>>, <<key0, right_id>>>>]
             t1 == UpdateRootPageId([NewPage(t, root_node) EXCEPT !.root_page_id_ = root_id])
         IN UnpinPage([t1 EXCEPT !.pages[left_id].parent_page_id_ = root_id,
                                 !.pages[right_id].parent_page_id_ = root_id],
                      root_id)
  ELSE LET parent_id == t.pages[left_id].parent_page_id_
       IN IF parent_id \notin held THEN Throw(t)
          ELSE LET parent_node == t.pages[parent_id]
               IN IF GetSize(parent_node) < GetMaxSize(parent_node)
                    THEN [t EXCEPT !.pages[parent_id].array_ = InternalInsert(@, key0, right_id)]
                  ELSE LET right_parent_id == t.next_page_id_
                           vec == SplitVec(parent_node, key0, right_id)
                           x == InternalSplitAt(parent_node)
                           right_parent ==
                             [InternalPageInit(parent_node.parent_page_id_, internal_max_size)
                                EXCEPT !.array_ = SubSeq(vec, x + 1, Len(vec))]
                           t1 == [NewPage(t, right_parent)
                                    EXCEPT !.pages[parent_id].array_ = SubSeq(vec, 1, x)]
                           t2 == UpdateChildNode(t1, right_parent_id, 0, Len(right_parent.array_))
                           t3 == InsertInParent(t2, parent_id, right_parent_id,
                                                right_parent.array_[1][1], held, internal_max_size)
                       IN IF t3.thrown THEN t3 ELSE UnpinPage(t3, right_parent_id)

InsertAlwaysTrue(t, key) == TRUE

\* what Insert returns
InsertReturns(t, key) ==
  IF IsEmpty(t) THEN TRUE ELSE ~LeafHas(t.pages[GetLeafPage(t, key)].array_, key)

\* Insert after GetLeafPage returned leaf_id with the pages of held latched
\* and pinned, up to its last UnlockPageSet; the new leaf of a split is
\* unpinned as Insert does before it returns
InsertAtLeaf(t0, leaf_id, held, key, value, leaf_max_size, internal_max_size) ==
  LET leaf == t0.pages[leaf_id]
      arr == LeafInsert(leaf.array_, key, value)
  IN IF LeafHas(leaf.array_, key) \/ Len(arr) < leaf_max_size
       THEN [t0 EXCEPT !.pages[leaf_id].array_ = arr]
     ELSE LET right_page_id == t0.next_page_id_
              x == LeafSplitAt(leaf)
              new_leaf == [LeafPageInit(leaf.parent_page_id_, leaf_max_size)
                             EXCEPT !.array_ = SubSeq(arr, x + 1, Len(arr)),
                                    !.next_page_id_ = leaf.next_page_id_]
              t1 == [NewPage(t0, new_leaf) EXCEPT !.pages[leaf_id].array_ = SubSeq(arr, 1, x),
                                                  !.pages[leaf_id].next_page_id_ = right_page_id]
              t2 == InsertInParent(t1, leaf_id, right_page_id, new_leaf.array_[1][1], held,
                                   internal_max_size)
          IN IF t2.thrown THEN t2 ELSE UnpinPage(t2, right_page_id)

\* the tree after Insert(key, value)
TreeInsert(t, key, value, leaf_max_size, internal_max_size) ==
  LET t0 == IF IsEmpty(t) THEN StartNewTree(t, leaf_max_size) ELSE t
      held == PageSet(t0, key, "INSERT")
      t1 == InsertAtLeaf(FetchPages(t0, held), GetLeafPage(t0, key), held, key, value,
                         leaf_max_size, internal_max_size)
  IN IF t1.thrown THEN t1 ELSE UnpinPages(t1, held)

\* TryBorrow succeeds with this sibling
CanBorrow(t, sibling_id) ==
  /\ sibling_id # INVALID_PAGE_ID
  /\ GetSize(t.pages[sibling_id]) > GetMinSize(t.pages[sibling_id])

\* TryBorrow(page, sibling, parent, is_left) when it succeeds
TryBorrow(t, page_id, sibling_id, parent_id, is_left) ==
  LET page == t.pages[page_id]
      sibling == t.pages[sibling_id]
      parent == t.pages[parent_id]
      parent_update_at == FindIndex(parent.array_, page_id) + (IF is_left THEN 0 ELSE 1)
      sibling_borrow_at == IF is_left THEN GetSize(sibling) - 1
                           ELSE (IF IsLeafPage(page) THEN 0 ELSE 1)
  IN IF IsLeafPage(page)
       THEN LET leaf_arr == LeafInsert(page.array_, KeyAt(sibling, sibling_borrow_at),
                                       ValueAt(sibling, sibling_borrow_at))
                sibling_arr == LeafRemove(sibling.array_, KeyAt(sibling, sibling_borrow_at))
                update_key == IF is_left THEN leaf_arr[1][1] ELSE sibling_arr[1][1]
            IN [t EXCEPT !.pages = [@ EXCEPT ![page_id].array_ = leaf_arr,
                                             ![sibling_id].array_ = sibling_arr,
                                             ![parent_id].array_[parent_update_at + 1][1] = update_key]]
     ELSE LET update_key == KeyAt(sibling, sibling_borrow_at)
          IN IF is_left
               THEN LET shifted == ShiftRight(page.array_)
                        arr == [shifted EXCEPT ![2][1] = KeyAt(parent, parent_update_at),
                                               ![1][2] = ValueAt(sibling, GetSize(sibling) - 1)]
                        t1 == [t EXCEPT !.pages =
                                 [@ EXCEPT ![page_id].array_ = arr,
                                           ![sibling_id].array_ = SubSeq(sibling.array_, 1, GetSize(sibling) - 1),
                                           ![parent_id].array_[parent_update_at + 1][1] = update_key]]
                    IN UpdateChildNode(t1, page_id, 0, 1)
             ELSE LET arr == Append(page.array_, <<KeyAt(parent, parent_update_at), ValueAt(sibling, 0)>>)
                      t1 == [t EXCEPT !.pages =
                               [@ EXCEPT ![page_id].array_ = arr,
                                         ![sibling_id].array_ = ShiftLeft(sibling.array_, ShiftLeftDefault),
                                         ![parent_id].array_[parent_update_at + 1][1] = update_key]]
                  IN UpdateChildNode(t1, page_id, Len(arr) - 1, Len(arr))

RECURSIVE LeafInsertAll(_, _)
LeafInsertAll(arr, pairs) ==
  IF pairs = <<>> THEN arr
  ELSE LeafInsertAll(LeafInsert(arr, Head(pairs)[1], Head(pairs)[2]), Tail(pairs))

RECURSIVE InternalInsertAll(_, _)
InternalInsertAll(arr, pairs) ==
  IF pairs = <<>> THEN arr
  ELSE InternalInsertAll(InternalInsert(arr, Head(pairs)[1], Head(pairs)[2]), Tail(pairs))

MergedLeafDropsRight(left_arr, right_arr) == left_arr

\* the pairs of the left leaf after a merge
MergedLeaf(left_arr, right_arr) == LeafInsertAll(left_arr, right_arr)

MergedNextKeeps(left_next, right_next) == left_next

\* the next_page_id_ of the left leaf after a merge
MergedNext(left_next, right_next) == right_next

\* Merge(left_page, right_page, parent_page)
Merge(t, left_id, right_id, parent_id) ==
  LET left_node == t.pages[left_id]
      right_node == t.pages[right_id]
      parent == t.pages[parent_id]
      position_left == FindIndex(parent.array_, left_id)
      parent_arr == ShiftLeft(parent.array_, position_left + 1)
  IN IF IsLeafPage(left_node)
       THEN [t EXCEPT !.pages = [@ EXCEPT ![left_id].array_ = MergedLeaf(@, right_node.array_),
                                          ![left_id].next_page_id_ =
                                             MergedNext(@, right_node.next_page_id_),
                                          ![parent_id].array_ = parent_arr]]
     ELSE LET old_size == GetSize(left_node)
              arr1 == Append(left_node.array_, <<KeyAt(parent, position_left + 1), ValueAt(right_node, 0)>>)
              arr2 == InternalInsertAll(arr1, Tail(right_node.array_))
              t1 == [t EXCEPT !.pages = [@ EXCEPT ![left_id].array_ = arr2,
                                                  ![parent_id].array_ = parent_arr]]
          IN UpdateChildNode(t1, left_id, old_size, Len(arr2))

RootNeverCollapses(page) == FALSE

\* HandleUnderFlow on the root replaces it by its only child
RootCollapses(page) == ~(IsLeafPage(page) \/ GetSize(page) > 1)

\* HandleUnderFlow on the root page
RootUnderFlow(t, page_id) ==
  LET page == t.pages[page_id]
  IN IF ~RootCollapses(page) THEN t
     ELSE LET root_id == ValueAt(page, 0)
              t1 == [FetchPage(t, root_id) EXCEPT !.deleted_ = @ \cup {page_id},
                                                  !.root_page_id_ = root_id,
                                                  !.pages[root_id].parent_page_id_ = INVALID_PAGE_ID]
          IN UnpinPage(UpdateRootPageId(t1), root_id)

\* GetSiblings(page, left_sibling_id, right_sibling_id, transaction): the
\* record [index, left, right], index -1 when the parent has no slot for
\* the page
GetSiblings(t, page_id, parent_id) ==
  LET parent == t.pages[parent_id]
      index == FindIndex(parent.array_, page_id)
  IN [index |-> index,
      left |-> IF index > 0 THEN ValueAt(parent, index - 1) ELSE INVALID_PAGE_ID,
      right |-> IF index >= 0 /\ index # GetSize(parent) - 1
                  THEN ValueAt(parent, index + 1) ELSE INVALID_PAGE_ID]

\* neither sibling can lend a pair, so HandleUnderFlow merges
MustMerge(t, left_sibling_page_id, right_sibling_page_id) ==
  ~CanBorrow(t, left_sibling_page_id) /\ ~CanBorrow(t, right_sibling_page_id)

\* HandleUnderFlow below the root once both siblings are latched: borrow from
\* the left, else from the right, else merge
BorrowOrMerge(t, page_id, parent_id, left_sibling_page_id, right_sibling_page_id) ==
  IF CanBorrow(t, left_sibling_page_id)
    THEN TryBorrow(t, page_id, left_sibling_page_id, parent_id, TRUE)
  ELSE IF CanBorrow(t, right_sibling_page_id)
    THEN TryBorrow(t, page_id, right_sibling_page_id, parent_id, FALSE)
  ELSE LET left_id == IF left_sibling_page_id # INVALID_PAGE_ID
                        THEN left_sibling_page_id ELSE page_id
           right_id == IF left_sibling_page_id # INVALID_PAGE_ID
                         THEN page_id ELSE right_sibling_page_id
           t1 == Merge(t, left_id, right_id, parent_id)
       IN [t1 EXCEPT !.deleted_ = @ \cup {right_id}]

\* after a merge the parent is below its minimum: HandleUnderFlow(parent)
ParentUnderFlows(t2, parent_id) ==
  GetSize(t2.pages[parent_id]) < GetMinSize(t2.pages[parent_id])

RECURSIVE HandleUnderFlow(_, _, _)
HandleUnderFlow(t, page_id, held) ==
  LET page == t.pages[page_id]
  IN IF IsRootPage(page) THEN RootUnderFlow(t, page_id)
     ELSE LET parent_id == page.parent_page_id_
          IN IF parent_id \notin held THEN Throw(t)
             ELSE LET sib == GetSiblings(t, page_id, parent_id)
                  IN IF sib.index = -1 THEN Throw(t)
                     ELSE IF sib.left = INVALID_PAGE_ID /\ sib.right = INVALID_PAGE_ID
                       THEN Throw(t)
                     ELSE LET t1 == FetchPages(t, {sib.left, sib.right})
                              t2 == UnpinPages(BorrowOrMerge(t1, page_id, parent_id,
                                                             sib.left, sib.right),
                                               {sib.left, sib.right})
                          IN IF MustMerge(t, sib.left, sib.right) /\ ParentUnderFlows(t2, parent_id)
                               THEN HandleUnderFlow(t2, parent_id, held)
                               ELSE t2

\* DeletePage of every page of the deleted-page set: a pinned page is not
\* deleted; the set is cleared
DeletePages(t) ==
  LET gone == {p \in t.deleted_ \cap DOMAIN t.pages : ~(t.pin_count_[p] > 0)}
  IN [t EXCEPT !.pages = [p \in DOMAIN t.pages \ gone |-> t.pages[p]],
               !.pin_count_ = [p \in DOMAIN t.pin_count_ \ gone |-> t.pin_count_[p]],
               !.deleted_ = {}]

\* the tree after Remove(key) on a tree that is not empty
TreeRemove(t, key) ==
  LET leaf_id == GetLeafPage(t, key)
      held == PageSet(t, key, "REMOVE")
      node == t.pages[leaf_id]
      t0 == FetchPages(t, held)
      t1 == [t0 EXCEPT !.pages[leaf_id].array_ = LeafRemove(@, key)]
  IN IF ~LeafHas(node.array_, key) THEN UnpinPages(t0, held)
     ELSE IF IsRootPage(node)
       THEN UnpinPages(IF GetSize(t1.pages[leaf_id]) = 0
                         THEN [t1 EXCEPT !.root_page_id_ = INVALID_PAGE_ID] ELSE t1,
                       held)
     ELSE IF GetSize(t1.pages[leaf_id]) >= GetMinSize(t1.pages[leaf_id])
       THEN UnpinPages(t1, held)
     ELSE LET t2 == HandleUnderFlow(t1, leaf_id, held)
          IN IF t2.thrown THEN t2 ELSE DeletePages(UnpinPages(t2, held))

\* GetValue(key) on a tree that is not empty: whether the key was found
GetValueFound(t, key) == LeafHas(t.pages[GetLeafPage(t, key)].array_, key)

\* the value GetValue appends to result
GetValueResult(t, key) ==
  LET arr == t.pages[GetLeafPage(t, key)].array_
  IN arr[LeafLowerBound(arr, key) + 1][2]

\* ============================================================ IndexIterator
\* An iterator is the record [page_id_, position_, value_], value_ the
\* <<key, value>> pair operator* returns.
\* IndexIterator(): what End() returns and what operator++ assigns at the end
IterEnd == [page_id_ |-> INVALID_PAGE_ID, position_ |-> 0, value_ |-> <<0, 0>>]

IsEnd(it) == it.page_id_ = INVALID_PAGE_ID

\* operator==
IterEq(a, b) == a.position_ = b.position_ /\ a.page_id_ = b.page_id_

RECURSIVE LeftmostFrom(_, _)
\* the leaf Begin() descends to
LeftmostFrom(t, page_id) ==
  IF IsLeafPage(t.pages[page_id]) THEN page_id
  ELSE LeftmostFrom(t, ValueAt(t.pages[page_id], 0))

\* Begin() on a tree that has a root
BeginFirst(t) ==
  LET leaf_id == LeftmostFrom(t, t.root_page_id_)
  IN [page_id_ |-> leaf_id, position_ |-> 0, value_ |-> t.pages[leaf_id].array_[1]]

\* Begin(key) gives up at this position of the leaf
BeginAtGivesUp(node, position, key) ==
  position = GetSize(node) \/ KeyAt(node, position) # key

\* Begin(key) on a tree that has a root
BeginAt(t, key) ==
  LET leaf_id == GetLeafPage(t, key)
      node == t.pages[leaf_id]
      position == LeafLowerBound(node.array_, key)
  IN IF BeginAtGivesUp(node, position, key) THEN IterEnd
     ELSE [page_id_ |-> leaf_id, position_ |-> position, value_ |-> node.array_[position + 1]]

\* what a slot at or after the size of a leaf, or a slot of a page that was
\* deleted, may hold: zeroes or a pair written there earlier
StaleSlots == {<<k, 2 * k>> : k \in 0 .. MaxIterKey}

\* operator++: the iterators it may leave.  KeyValueAt(position_) is read
\* without a test against the size when ++position_ differs from it, and a
\* page that was deleted is fetched again from the disk.
Advance(t, it) ==
  IF IsEnd(it) THEN {it}
  ELSE IF it.page_id_ \notin DOMAIN t.pages
    THEN {[it EXCEPT !.position_ = @ + 1, !.value_ = v] : v \in StaleSlots} \cup {IterEnd}
  ELSE LET node == t.pages[it.page_id_]
           position == it.position_ + 1
       IN IF position # GetSize(node)
            THEN (IF position < GetSize(node)
                    THEN {[it EXCEPT !.position_ = position, !.value_ = node.array_[position + 1]]}
                  ELSE {[it EXCEPT !.position_ = position, !.value_ = v] : v \in StaleSlots})
          ELSE IF node.next_page_id_ = INVALID_PAGE_ID THEN {IterEnd}
          ELSE {[page_id_ |-> node.next_page_id_, position_ |-> 0,
                 value_ |-> t.pages[node.next_page_id_].array_[1]]}

\* ================================================ BufferPoolManagerInstance
VARIABLES
  pages_,         \* pages_[f] = [page_id_, pin_count_, is_dirty_, data_]
  free_list_,     \* sequence of frame ids, front first
  page_table_,    \* ExtendibleHashTable<page_id_t, frame_id_t>
  replacer_,      \* LRUKReplacer
  next_page_id_,  \* next id AllocatePage hands out
  disk,           \* what DiskManager::ReadPage(p) would deliver
  ret,            \* the last call: [op, arg, flag, val, frame] (see Ret)
  calls,          \* number of calls made so far
  acc,            \* the last k_ direct RecordAccess calls of every tracked frame,
                  \* oldest first (the access history LRU-K is defined on)
  durable,        \* durable[p]: bytes of p at its last Unpin(p, true); NoData when
                  \* there was none, or p was written since, or p was deleted
  log,            \* replacer scenario: the frames passed to RecordAccess, in order
  evicted,        \* replacer scenario: the frames the Evict calls returned, in order
  table,          \* an ExtendibleHashTable<int, int> on its own
  shadow,         \* the map table stands for: key -> value of the latest Insert
                  \* of the key that no Remove of the key followed
  tree,           \* a BPlusTree on a buffer pool that holds all its pages
  kv,             \* the key/value set tree stands for
  iter,           \* an IndexIterator of tree
  walk,           \* the iteration iter is in: [key, keys, mods], key the argument
                  \* of its Begin (0 for Begin()), keys the keys it produced, mods
                  \* the calls that changed the tree since ("none", "removes",
                  \* "other"); key and keys are kept while mods is "none"
  latches,        \* root_latch_ of tree and the rwlatch_ of each of its pages:
                  \* [w, r], w the thread holding it for writing (0 if none), r
                  \* the threads holding it for reading
  thr             \* thr[i]: the call thread i makes on tree and where it is in it

\* the state of the components exercised on their own
scenarioVars == <<log, evicted>>

tableVars == <<table, shadow>>

treeVars == <<tree, kv>>

iterVars == <<iter, walk>>

concVars == <<latches, thr>>

otherVars == <<scenarioVars, tableVars, treeVars, iterVars, concVars>>

vars == <<pages_, free_list_, page_table_, replacer_, next_page_id_, disk, ret, calls,
          acc, durable, otherVars>>

bpmVars == <<pages_, free_list_, page_table_, next_page_id_, disk, durable>>

\* The record of a call: op its name, arg its page id or frame id argument
\* (-1 if none), flag its boolean argument as 0/1, val what it returned
\* (a page id or Null; 1/0 for true/false; Thrown), frame the frame it took
\* from the replacer by Evict (NewPgImp, FetchPgImp) or released to the free
\* list (DeletePgImp), -1 if none.
Ret(op, arg, flag, val, frame) ==
  [op |-> op, arg |-> arg, flag |-> flag, val |-> val, frame |-> frame]

B2I(b) == IF b THEN 1 ELSE 0

Thrown == -2        \* the call threw std::invalid_argument

EmptyPage == [page_id_ |-> INVALID_PAGE_ID, pin_count_ |-> 0, is_dirty_ |-> FALSE, data_ |-> 0]

\* the threads that call the tree concurrently: two of them
Threads == {1, 2}

\* a ReaderWriterLatch nobody holds
NoLatch == [w |-> 0, r |-> {}]

NoLatches ==
  [root_latch_ |-> NoLatch, rwlatch_ |-> [page_id \in 1 .. MaxTreePageId |-> NoLatch]]

\* A thread: pc where it is in its call ("idle" before the call, "done" once
\* it returned, "stuck" when it does not return, "delete_pages" at the
\* DeletePage loop that ends Remove), op/key/is_first the
\* arguments of GetLeafPage, page_set and deleted_pages the page set and the
\* deleted-page set of its transaction (INVALID_PAGE_ID standing for the
\* nullptr that stands for root_latch_), cur_page_id and prev_page the
\* locals of GetLeafPage, page/parent/left/right the pages HandleUnderFlow
\* works on, val what the call returned (1/0 for true/false).
Idle ==
  [pc |-> "idle", op |-> "FIND", key |-> 0, is_first |-> TRUE, page_set |-> <<>>,
   deleted_pages |-> {}, cur_page_id |-> INVALID_PAGE_ID, prev_page |-> INVALID_PAGE_ID,
   page |-> INVALID_PAGE_ID, parent |-> INVALID_PAGE_ID, left |-> INVALID_PAGE_ID,
   right |-> INVALID_PAGE_ID, val |-> 0]

\* no iteration is under way
NoWalk == [key |-> 0, keys |-> <<>>, mods |-> "other"]

\* everything but the replacer
InitPool ==
  /\ pages_ = [f \in Frames |-> EmptyPage]
  /\ free_list_ = [i \in 1 .. PoolSize |-> i - 1]
  /\ page_table_ = TableInit
  /\ next_page_id_ = 0
  /\ disk = [p \in PageIds |-> 0]
  /\ ret = Ret("ctor", -1, 0, 1, -1)
  /\ calls = 0
  /\ acc = <<>>
  /\ durable = [p \in PageIds |-> NoData]
  /\ log = <<>>
  /\ evicted = <<>>
  /\ table = TableInit
  /\ shadow = <<>>
  /\ tree = TreeInit
  /\ kv = <<>>
  /\ iter = IterEnd
  /\ walk = NoWalk
  /\ latches = NoLatches
  /\ thr = [i \in Threads |-> Idle]

Init == InitPool /\ replacer_ = ReplacerInit

\* one more call, while the behaviour is within its bound
Tick == calls < MaxCalls /\ calls' = calls + 1 /\ UNCHANGED otherVars

\* a call on the buffer pool manager
BpmCall == Tick /\ UNCHANGED acc

ResetPage(page) ==
  [page EXCEPT !.data_ = 0, !.is_dirty_ = FALSE, !.page_id_ = INVALID_PAGE_ID]

Resident(page_id) == HTFind(page_table_, page_id)

FrameOf(page_id) == HTGet(page_table_, page_id)

VictimNeverWrittenBack(page) == FALSE

\* the victim's bytes go to disk when this holds
VictimWrittenBack(page) == page.is_dirty_

VictimStaysMapped(pt, page) == pt

\* the victim's old mapping leaves the page table
VictimUnmapped(pt, page) == HTRemove(pt, page.page_id_)

\* Frame acquisition of NewPgImp and FetchPgImp: the free list first, then the
\* replacer.  frame_id = -1 when neither yields a frame (page stays nullptr).
AcquireFrame ==
  IF free_list_ # <<>>
    THEN [frame_id |-> Head(free_list_), pages |-> pages_, free_list |-> Tail(free_list_),
          page_table |-> page_table_, replacer |-> replacer_, disk |-> disk,
          victim |-> -1]
  ELSE LET v == EvictVictim(replacer_)
       IN IF v = -1
            THEN [frame_id |-> -1, pages |-> pages_, free_list |-> free_list_,
                  page_table |-> page_table_, replacer |-> replacer_, disk |-> disk,
                  victim |-> -1]
          ELSE LET page == pages_[v]
                   wb == VictimWrittenBack(page)
               IN [frame_id |-> v,
                   pages |-> IF wb THEN [pages_ EXCEPT ![v] = ResetPage(page)] ELSE pages_,
                   free_list |-> free_list_,
                   page_table |-> VictimUnmapped(page_table_, page),
                   replacer |-> Evict(replacer_),
                   disk |-> IF wb THEN [disk EXCEPT ![page.page_id_] = page.data_] ELSE disk,
                   victim |-> v]

\* bookkeeping of durable when the bytes of page id p stop being the ones of
\* its last Unpin(p, true)
Forget(d, p) == [d EXCEPT ![p] = NoData]

\* the replacer calls that pin a frame
PinInReplacer(r, frame_id) == SetEvictable(RecordAccess(r, frame_id), frame_id, FALSE)

NewPgImp ==
  /\ BpmCall
  /\ next_page_id_ < MaxPages
  /\ LET a == AcquireFrame
         frame_id == a.frame_id
     IN IF frame_id = -1
          THEN /\ ret' = Ret("NewPgImp", -1, 0, Null, -1)
               /\ UNCHANGED <<bpmVars, replacer_>>
        ELSE /\ pages_' = [a.pages EXCEPT ![frame_id].page_id_ = next_page_id_,
                                          ![frame_id].pin_count_ = @ + 1]
             /\ next_page_id_' = next_page_id_ + 1
             /\ free_list_' = a.free_list
             /\ page_table_' = HTInsert(a.page_table, next_page_id_, frame_id)
             /\ replacer_' = PinInReplacer(a.replacer, frame_id)
             /\ disk' = a.disk
             /\ UNCHANGED durable
             /\ ret' = Ret("NewPgImp", -1, 0, next_page_id_, a.victim)

FetchPgImp(page_id) ==
  /\ BpmCall
  /\ page_id < next_page_id_
  /\ IF Resident(page_id)
       THEN LET frame_id == FrameOf(page_id)
            IN /\ replacer_' = PinInReplacer(replacer_, frame_id)
               /\ pages_' = [pages_ EXCEPT ![frame_id].pin_count_ = @ + 1]
               /\ ret' = Ret("FetchPgImp", page_id, 0, page_id, -1)
               /\ UNCHANGED <<free_list_, page_table_, next_page_id_, disk, durable>>
     ELSE LET a == AcquireFrame
              frame_id == a.frame_id
          IN IF frame_id = -1
               THEN /\ ret' = Ret("FetchPgImp", page_id, 0, Null, -1)
                    /\ UNCHANGED <<bpmVars, replacer_>>
             ELSE /\ pages_' = [a.pages EXCEPT ![frame_id].data_ = a.disk[page_id],
                                               ![frame_id].page_id_ = page_id,
                                               ![frame_id].pin_count_ = @ + 1]
                  /\ free_list_' = a.free_list
                  /\ page_table_' = HTInsert(a.page_table, page_id, frame_id)
                  /\ replacer_' = PinInReplacer(a.replacer, frame_id)
                  /\ disk' = a.disk
                  /\ ret' = Ret("FetchPgImp", page_id, 0, page_id, a.victim)
                  /\ UNCHANGED <<next_page_id_, durable>>

UnpinDirtyOverwrites(old_dirty, is_dirty) == is_dirty

\* the dirty flag after a successful Unpin
UnpinDirty(old_dirty, is_dirty) == IF is_dirty THEN TRUE ELSE old_dirty

UnpinMakesEvictableAlways(pin_count) == TRUE

UnpinMakesEvictableNever(pin_count) == FALSE

\* whether a successful Unpin hands the frame to the replacer
UnpinMakesEvictable(pin_count) == pin_count = 0

UnpinAlwaysAllowed(page) == TRUE

\* whether Unpin goes ahead on a resident page
UnpinAllowed(page) == page.pin_count_ > 0

UnpinPgImp(page_id, is_dirty) ==
  /\ BpmCall
  /\ IF ~Resident(page_id)
       THEN /\ ret' = Ret("UnpinPgImp", page_id, B2I(is_dirty), 0, -1)
            /\ UNCHANGED <<bpmVars, replacer_>>
     ELSE LET frame_id == FrameOf(page_id)
              page == pages_[frame_id]
          IN IF UnpinAllowed(page)
               THEN LET pin == page.pin_count_ - 1
                    IN /\ pages_' = [pages_ EXCEPT ![frame_id].pin_count_ = pin,
                                        ![frame_id].is_dirty_ = UnpinDirty(@, is_dirty)]
                       /\ replacer_' = IF UnpinMakesEvictable(pin)
                                         THEN SetEvictable(replacer_, frame_id, TRUE)
                                       ELSE replacer_
                       /\ durable' = IF is_dirty THEN [durable EXCEPT ![page_id] = page.data_]
                                     ELSE durable
                       /\ ret' = Ret("UnpinPgImp", page_id, B2I(is_dirty), 1, -1)
                       /\ UNCHANGED <<free_list_, page_table_, next_page_id_, disk>>
             ELSE /\ ret' = Ret("UnpinPgImp", page_id, B2I(is_dirty), 0, -1)
                  /\ UNCHANGED <<bpmVars, replacer_>>

FlushPgImp(page_id) ==
  /\ BpmCall
  /\ IF ~Resident(page_id)
       THEN /\ ret' = Ret("FlushPgImp", page_id, 0, 0, -1)
            /\ UNCHANGED <<bpmVars, replacer_>>
     ELSE LET frame_id == FrameOf(page_id)
          IN /\ disk' = [disk EXCEPT ![page_id] = pages_[frame_id].data_]
             /\ pages_' = [pages_ EXCEPT ![frame_id].is_dirty_ = FALSE]
             /\ ret' = Ret("FlushPgImp", page_id, 0, 1, -1)
             /\ UNCHANGED <<free_list_, page_table_, replacer_, next_page_id_, durable>>

FlushAllPgsImp ==
  /\ BpmCall
  /\ disk' = [p \in PageIds |->
               IF \E f \in Frames : pages_[f].page_id_ = p
                 THEN pages_[CHOOSE f \in Frames : pages_[f].page_id_ = p].data_
               ELSE disk[p]]
  /\ pages_' = [f \in Frames |->
                 IF pages_[f].page_id_ # INVALID_PAGE_ID
                   THEN [pages_[f] EXCEPT !.is_dirty_ = FALSE] ELSE pages_[f]]
  /\ ret' = Ret("FlushAllPgsImp", -1, 0, 1, -1)
  /\ UNCHANGED <<free_list_, page_table_, replacer_, next_page_id_, durable>>

DeleteFreeListDropped(fl, frame_id) == fl

\* the free list after Delete releases frame_id
DeleteFreeList(fl, frame_id) == Append(fl, frame_id)

\* the page table after Delete
DeletePageTable(pt, page_id) == HTRemove(pt, page_id)

DeleteNeverRefused(page) == FALSE

\* whether Delete refuses a resident page
DeleteRefused(page) == page.pin_count_ > 0

DeletePgImp(page_id) ==
  /\ BpmCall
  /\ IF ~Resident(page_id)
       THEN /\ ret' = Ret("DeletePgImp", page_id, 0, 1, -1)
            /\ UNCHANGED <<bpmVars, replacer_>>
     ELSE LET frame_id == FrameOf(page_id)
              page == pages_[frame_id]
          IN IF DeleteRefused(page)
               THEN /\ ret' = Ret("DeletePgImp", page_id, 0, 0, -1)
                    /\ UNCHANGED <<bpmVars, replacer_>>
             ELSE /\ free_list_' = DeleteFreeList(free_list_, frame_id)
                  /\ replacer_' = Remove(replacer_, frame_id)
                  /\ page_table_' = DeletePageTable(page_table_, page_id)
                  /\ pages_' = [pages_ EXCEPT ![frame_id] = ResetPage(page)]
                  /\ durable' = Forget(durable, page_id)
                  /\ ret' = Ret("DeletePgImp", page_id, 0, 1, frame_id)
                  /\ UNCHANGED <<next_page_id_, disk>>

\* a client that holds a pin on the page in frame f writes its bytes
WritePageData(f, v) ==
  /\ BpmCall
  /\ pages_[f].pin_count_ > 0
  /\ pages_[f].page_id_ # INVALID_PAGE_ID
  /\ pages_[f].data_ # v
  /\ pages_' = [pages_ EXCEPT ![f].data_ = v]
  /\ durable' = Forget(durable, pages_[f].page_id_)
  /\ ret' = Ret("WritePageData", f, 0, v, -1)
  /\ UNCHANGED <<free_list_, page_table_, replacer_, next_page_id_, disk>>

Next ==
  \/ NewPgImp
  \/ \E p \in PageIds : FetchPgImp(p)
  \/ \E p \in PageIds, d \in BOOLEAN : UnpinPgImp(p, d)
  \/ \E p \in PageIds : FlushPgImp(p)
  \/ FlushAllPgsImp
  \/ \E p \in PageIds : DeletePgImp(p)
  \/ \E f \in Frames, v \in Data : WritePageData(f, v)

Spec == Init /\ [][Next]_vars

\* ------------------------------------------- the replacer called directly
\* history bookkeeping for one access
AccAppend(a, f) ==
  IF Count(a, f) >= replacer_.k_ THEN EraseFrom(a, f) \o <<f>> ELSE a \o <<f>>

CallRecordAccess(frame_id) ==
  /\ Tick
  /\ replacer_' = RecordAccess(replacer_, frame_id)
  /\ acc' = IF BadFrameId(replacer_, frame_id) THEN acc ELSE AccAppend(acc, frame_id)
  /\ ret' = Ret("RecordAccess", frame_id, 0, IF BadFrameId(replacer_, frame_id) THEN Thrown ELSE 1, -1)
  /\ UNCHANGED bpmVars

CallSetEvictable(frame_id, set_evictable) ==
  /\ Tick
  /\ replacer_' = SetEvictable(replacer_, frame_id, set_evictable)
  /\ ret' = Ret("SetEvictable", frame_id, B2I(set_evictable),
              IF BadFrameId(replacer_, frame_id) THEN Thrown ELSE 1, -1)
  /\ UNCHANGED <<bpmVars, acc>>

CallEvict ==
  /\ Tick
  /\ replacer_' = Evict(replacer_)
  /\ acc' = DropAll(acc, EvictVictim(replacer_))
  /\ ret' = Ret("Evict", -1, 0, B2I(EvictVictim(replacer_) # -1), EvictVictim(replacer_))
  /\ UNCHANGED bpmVars

CallRemove(frame_id) ==
  /\ Tick
  /\ replacer_' = Remove(replacer_, frame_id)
  /\ acc' = IF Tracked(replacer_', frame_id) THEN acc ELSE DropAll(acc, frame_id)
  /\ ret' = Ret("Remove", frame_id, 0, IF BadFrameId(replacer_, frame_id) THEN Thrown ELSE 1, -1)
  /\ UNCHANGED bpmVars

CallSize ==
  /\ Tick
  /\ ret' = Ret("Size", -1, 0, Size(replacer_), -1)
  /\ UNCHANGED <<bpmVars, replacer_, acc>>

NextReplacer ==
  \/ \E f \in FrameArgs : CallRecordAccess(f)
  \/ \E f \in FrameArgs, b \in BOOLEAN : CallSetEvictable(f, b)
  \/ CallEvict
  \/ \E f \in FrameArgs : CallRemove(f)
  \/ CallSize

SpecReplacer == Init /\ [][NextReplacer]_vars

\* the replacer on its own, constructed with k = DeepK
InitDeep == InitPool /\ replacer_ = ReplacerNew(PoolSize, DeepK)

SpecReplacerDeep == InitDeep /\ [][NextReplacer]_vars

\* ------------------------------------------------- a replacer scenario
\* A replacer on its own, driven the way a client drives it in one scenario:
\* any RecordAccess calls on frames 1, 2, 3, then SetEvictable(f, true) on
\* each of the three frames, then Evict until it fails.
ScenarioFrameIds == {1, 2, 3}

InitScenario == InitPool /\ replacer_ = ReplacerNew(ScenarioReplacerSize, LRUK_K)

RECURSIVE SetAllEvictable(_, _)
SetAllEvictable(r, S) ==
  IF S = {} THEN r
  ELSE LET f == CHOOSE x \in S : \A y \in S : x <= y
       IN SetAllEvictable(SetEvictable(r, f, TRUE), S \ {f})

ScenarioRecordAccess(frame_id) ==
  /\ ret.op \in {"ctor", "RecordAccess"}
  /\ Len(log) < MaxAccesses
  /\ replacer_' = RecordAccess(replacer_, frame_id)
  /\ log' = Append(log, frame_id)
  /\ acc' = AccAppend(acc, frame_id)
  /\ ret' = Ret("RecordAccess", frame_id, 0, 1, -1)
  /\ UNCHANGED <<bpmVars, calls, evicted, tableVars, treeVars, iterVars, concVars>>

ScenarioSetEvictable ==
  /\ ret.op = "RecordAccess"
  /\ replacer_' = SetAllEvictable(replacer_, ScenarioFrameIds)
  /\ ret' = Ret("SetEvictable", -1, 1, 1, -1)
  /\ UNCHANGED <<bpmVars, calls, acc, log, evicted, tableVars, treeVars, iterVars, concVars>>

ScenarioEvict ==
  /\ ret.op = "SetEvictable" \/ (ret.op = "Evict" /\ ret.val = 1)
  /\ replacer_' = Evict(replacer_)
  /\ evicted' = IF EvictVictim(replacer_) # -1
                  THEN Append(evicted, EvictVictim(replacer_)) ELSE evicted
  /\ acc' = DropAll(acc, EvictVictim(replacer_))
  /\ ret' = Ret("Evict", -1, 0, B2I(EvictVictim(replacer_) # -1), EvictVictim(replacer_))
  /\ UNCHANGED <<bpmVars, calls, log, tableVars, treeVars, iterVars, concVars>>

NextScenario ==
  \/ \E f \in ScenarioFrameIds : ScenarioRecordAccess(f)
  \/ ScenarioSetEvictable
  \/ ScenarioEvict

SpecScenario == InitScenario /\ [][NextScenario]_vars

\* ------------------------------------------------ a hash table on its own
Keys == 0 .. MaxKey

\* two values, to tell an overwritten value from the one that replaced it
Values == {0, 1}

\* everything but the hash table and the B+ tree on their own
poolVars == <<bpmVars, replacer_, calls, acc, scenarioVars, concVars>>

TableInsert(key, value) ==
  /\ table' = HTInsert(table, key, value)
  /\ shadow' = MapPut(shadow, key, value)
  /\ ret' = Ret("Insert", key, 0, value, -1)
  /\ UNCHANGED <<poolVars, treeVars, iterVars>>

TableRemove(key) ==
  /\ table' = HTRemove(table, key)
  /\ shadow' = MapErase(shadow, key)
  /\ ret' = Ret("Remove", key, 0, B2I(HTFind(table, key)), -1)
  /\ UNCHANGED <<poolVars, treeVars, iterVars>>

TableFind(key) ==
  /\ ret' = Ret("Find", key, B2I(HTFind(table, key)),
              IF HTFind(table, key) THEN HTGet(table, key) ELSE Null, -1)
  /\ UNCHANGED <<poolVars, tableVars, treeVars, iterVars, concVars>>

NextTable ==
  \/ \E key \in Keys, value \in Values : TableInsert(key, value)
  \/ \E key \in Keys : TableRemove(key)
  \/ \E key \in Keys : TableFind(key)

SpecTable == Init /\ [][NextTable]_vars

\* ---------------------------------------------------- a B+ tree on its own
\* the iteration after a Remove call
AfterRemove(w) ==
  IF w.mods = "other" THEN w ELSE [key |-> 0, keys |-> <<>>, mods |-> "removes"]

TreeKeys == 1 .. MaxTreeKey

\* the values a key is inserted with: its own, and a second one for key 1 to
\* tell apart the values of two inserts of one key
TreeValues(key) == IF key = 1 THEN {2, 3} ELSE {2 * key}

\* Insert(key, value); of a call on the tree ret keeps the name and what it
\* returned, the map kv keeps its effect
TreeCallInsert(key, value) ==
  /\ ~tree.thrown
  /\ tree' = TreeInsert(tree, key, value, LeafMaxSize, InternalMaxSize)
  /\ tree'.next_page_id_ <= MaxTreePageId + 1
  /\ kv' = IF key \in DOMAIN kv THEN kv ELSE MapPut(kv, key, value)
  /\ ret' = Ret("Insert", -1, 0,
                IF tree'.thrown THEN Thrown ELSE B2I(InsertReturns(tree, key)), -1)
  /\ walk' = NoWalk
  /\ UNCHANGED <<poolVars, tableVars, iter>>

\* Remove(key) on a tree that has a root; the flag of ret tells whether the
\* call changed root_page_id_
TreeCallRemove(key) ==
  /\ ~tree.thrown
  /\ ~IsEmpty(tree)
  /\ tree' = TreeRemove(tree, key)
  /\ kv' = MapErase(kv, key)
  /\ ret' = Ret("Remove", -1, B2I(tree'.root_page_id_ # tree.root_page_id_),
                IF tree'.thrown THEN Thrown ELSE 1, -1)
  /\ walk' = AfterRemove(walk)
  /\ UNCHANGED <<poolVars, tableVars, iter>>

\* Remove(key) and GetValue(key) while root_page_id_ is INVALID_PAGE_ID:
\* GetLeafPage fetches page INVALID_PAGE_ID, takes what the frame holds for
\* an internal page of size 0 and reads array_[-1] of it.  The behaviour is
\* undefined; the call returns, with either answer for GetValue, or it does
\* not return.
TreeCallOnEmpty(op, key) ==
  /\ ~tree.thrown
  /\ IsEmpty(tree)
  /\ \E found \in {0, 1, Thrown} :
       /\ op = "Remove" => found # 0
       /\ ret' = Ret(op, IF op = "GetValue" THEN key ELSE -1,
                     IF found = 1 /\ op = "GetValue" THEN 1 ELSE 0,
                     IF found = Thrown THEN Thrown ELSE IF op = "Remove" THEN 1 ELSE Null, -1)
       /\ tree' = IF found = Thrown THEN Throw(tree) ELSE tree
  /\ walk' = NoWalk
  /\ UNCHANGED <<poolVars, tableVars, kv, iter>>

NextTree ==
  \/ \E key \in TreeKeys : \E value \in TreeValues(key) : TreeCallInsert(key, value)
  \/ \E key \in TreeKeys : TreeCallRemove(key)
  \/ \E op \in {"Remove", "GetValue"}, key \in TreeKeys : TreeCallOnEmpty(op, key)

SpecTree == Init /\ [][NextTree]_vars

\* ------------------------------------------- a B+ tree and an iterator of it
IterKeys == 1 .. MaxIterKey

\* the iteration a Begin call starts
WalkFrom(key, it) ==
  [key |-> key, keys |-> IF IsEnd(it) THEN <<>> ELSE <<it.value_[1]>>, mods |-> "none"]

\* iter = Begin(key), key = 0 standing for iter = Begin().  On a tree without
\* a root the descent starts at page INVALID_PAGE_ID, as in TreeCallOnEmpty:
\* the call does not return, or it returns some iterator, here End().
IterCallBegin(key) ==
  /\ ~tree.thrown
  /\ IF IsEmpty(tree)
       THEN \/ tree' = Throw(tree) /\ UNCHANGED iterVars
            \/ tree' = tree /\ iter' = IterEnd /\ walk' = NoWalk
     ELSE /\ iter' = IF key = 0 THEN BeginFirst(tree) ELSE BeginAt(tree, key)
          /\ walk' = WalkFrom(key, iter')
          /\ tree' = tree
  /\ ret' = Ret("Begin", -1, 0, IF tree'.thrown THEN Thrown ELSE 1, -1)
  /\ UNCHANGED <<poolVars, tableVars, kv>>

\* ++iter
IterCallNext ==
  /\ ~tree.thrown
  /\ iter.position_ < MaxPosition
  /\ iter' \in Advance(tree, iter)
  /\ walk' = IF walk.mods = "none" /\ ~IsEnd(iter')
               THEN [walk EXCEPT !.keys = Append(@, iter'.value_[1])] ELSE walk
  /\ ret' = Ret("++", -1, 0, 1, -1)
  /\ UNCHANGED <<poolVars, tableVars, treeVars>>

NextIter ==
  \/ \E key \in IterKeys : TreeCallInsert(key, 2 * key)
  \/ \E key \in IterKeys : TreeCallRemove(key)
  \/ \E key \in {0} \cup IterKeys : IterCallBegin(key)
  \/ IterCallNext

SpecIter == Init /\ [][NextIter]_vars


\* ------------------------------------- a B+ tree and threads calling it
\* ReaderWriterLatch: RLock/WLock block until the latch can be taken
CanRLock(l) == l.w = 0

CanWLockAlways(l) == TRUE

CanWLock(l) == l.w = 0 /\ l.r = {}

RLock(l, i) == [l EXCEPT !.r = @ \cup {i}]

WLock(l, i) == [l EXCEPT !.w = i]

RUnlock(l, i) == [l EXCEPT !.r = @ \ {i}]

WUnlock(l) == [l EXCEPT !.w = 0]

\* Page::RLatch, WLatch, RUnlatch, WUnlatch of the page page_id
RLatch(ls, page_id, i) == [ls EXCEPT !.rwlatch_[page_id] = RLock(@, i)]

WLatch(ls, page_id, i) == [ls EXCEPT !.rwlatch_[page_id] = WLock(@, i)]

RUnlatch(ls, page_id, i) == [ls EXCEPT !.rwlatch_[page_id] = RUnlock(@, i)]

WUnlatch(ls, page_id) == [ls EXCEPT !.rwlatch_[page_id] = WUnlock(@)]

UnlockPageSetKeeps(ls, page_set) == ls

RECURSIVE UnlockPageSet(_, _)
\* UnlockPageSet(transaction, is_dirty): the latches after the page set is
\* emptied front first
UnlockPageSet(ls, page_set) ==
  IF page_set = <<>> THEN ls
  ELSE UnlockPageSet(IF Head(page_set) = INVALID_PAGE_ID
                       THEN [ls EXCEPT !.root_latch_ = WUnlock(@)]
                       ELSE WUnlatch(ls, Head(page_set)),
                     Tail(page_set))

\* the pages GetPageFromTransaction finds in a page set
PagesOf(page_set) == {page_set[j] : j \in DOMAIN page_set} \ {INVALID_PAGE_ID}

UnpinPageSetSkipped(t, page_set) == t

\* UnlockPageSet(transaction, is_dirty): the pins after the page set is emptied
UnpinPageSet(t, page_set) == UnpinPages(t, PagesOf(page_set))

ConcKeys == 1 .. MaxConcKey

\* the calls a thread makes: Insert(key, 2 * key), Remove(key), GetValue(key)
OpeTypes == {"INSERT", "REMOVE", "FIND"}

AllIdle == \A i \in Threads : thr[i].pc = "idle"

\* the tree as the transaction of a thread sees it, and as the threads share it
WithDeleted(t, deleted_pages) == [t EXCEPT !.deleted_ = deleted_pages]

Shared(t) == [t EXCEPT !.deleted_ = {}, !.thrown = FALSE]

\* the thread after its call returned val
Returned(th, val) == [Idle EXCEPT !.pc = "done", !.op = th.op, !.key = th.key, !.val = val]

\* the thread whose call does not return
Stuck(th) == [th EXCEPT !.pc = "stuck"]

\* the tree is built by one thread before the others are started
ConcSetup(key) ==
  /\ AllIdle
  /\ TreeCallInsert(key, 2 * key)

\* a number for each call, to list the calls of the threads in one order
CallRank(op, key) ==
  (IF op = "INSERT" THEN 0 ELSE IF op = "REMOVE" THEN 1 ELSE 2) * MaxConcKey + key

\* Every thread is started on one call.  The threads run the same code, so
\* the calls are handed out in one order only: a thread never gets a call
\* that ranks below the call of a thread of smaller number.
ConcFork ==
  /\ AllIdle
  /\ ~tree.thrown
  /\ \E ops \in [Threads -> OpeTypes], keys \in [Threads -> ConcKeys] :
       /\ \A i, j \in Threads :
            i < j => CallRank(ops[i], keys[i]) <= CallRank(ops[j], keys[j])
       /\ thr' = [i \in Threads |->
                    [Idle EXCEPT !.pc = "lock_root", !.op = ops[i], !.key = keys[i]]]
  /\ ret' = Ret("fork", -1, 0, 1, -1)
  /\ UNCHANGED <<bpmVars, replacer_, calls, acc, scenarioVars, tableVars, treeVars, iterVars,
                 latches>>

\* what a step of a thread leaves alone
ConcFrame == UNCHANGED <<bpmVars, replacer_, calls, acc, scenarioVars, tableVars, kv, iterVars, ret>>

\* GetLeafPage up to the first page latch it waits for: the thread takes
\* root_latch_, an INSERT starts a new tree when there is none, and the root
\* page is fetched.  Without a root a FIND or REMOVE
\* goes on to fetch page INVALID_PAGE_ID as in TreeCallOnEmpty: with
\* root_latch_ released again the call returns, with either answer for
\* GetValue, or it does not return.
ConcLockRoot(i) ==
  LET th == thr[i]
      t0 == IF IsEmpty(tree) /\ th.op = "INSERT" THEN StartNewTree(tree, LeafMaxSize) ELSE tree
  IN /\ th.pc = "lock_root"
     /\ IF th.op = "FIND" THEN CanRLock(latches.root_latch_) ELSE CanWLock(latches.root_latch_)
     /\ t0.next_page_id_ <= MaxTreePageId + 1
     /\ tree' = FetchPage(t0, t0.root_page_id_)
     /\ IF IsEmpty(t0)
          THEN /\ latches' = latches
               /\ \E found \in {0, 1, Thrown} :
                    /\ th.op = "REMOVE" => found # 0
                    /\ thr' = [thr EXCEPT ![i] = IF found = Thrown THEN Stuck(th)
                                                 ELSE Returned(th, found)]
          ELSE /\ latches' = [latches EXCEPT !.root_latch_ =
                                IF th.op = "FIND" THEN RLock(@, i) ELSE WLock(@, i)]
               /\ thr' = [thr EXCEPT ![i] =
                            [th EXCEPT !.pc = "latch_page",
                                       !.cur_page_id = t0.root_page_id_,
                                       !.prev_page = INVALID_PAGE_ID,
                                       !.page_set = IF th.op = "FIND" THEN <<>>
                                                    ELSE <<INVALID_PAGE_ID>>]]
     /\ ConcFrame

\* the latch GetLeafPage takes on the page it fetched
TakesWLatch(th, node) == th.op # "FIND" /\ (~th.is_first \/ IsLeafPage(node))

\* the latches, the pins and the page set after the page is latched
AfterLatch(ls, t, th, node, i) ==
  LET page_id == th.cur_page_id
  IN IF th.op = "FIND"
       THEN IF th.prev_page # INVALID_PAGE_ID
              THEN [ls |-> RUnlatch(RLatch(ls, page_id, i), th.prev_page, i),
                    t |-> UnpinPage(t, th.prev_page), page_set |-> th.page_set]
              ELSE [ls |-> [RLatch(ls, page_id, i) EXCEPT !.root_latch_ = RUnlock(@, i)],
                    t |-> t, page_set |-> th.page_set]
     ELSE IF ~th.is_first
       THEN IF IsSafe(node, th.op)
              THEN [ls |-> UnlockPageSet(WLatch(ls, page_id, i), th.page_set),
                    t |-> UnpinPageSet(t, th.page_set), page_set |-> <<page_id>>]
              ELSE [ls |-> WLatch(ls, page_id, i), t |-> t,
                    page_set |-> Append(th.page_set, page_id)]
     ELSE IF IsLeafPage(node)
       THEN IF th.prev_page # INVALID_PAGE_ID
              THEN [ls |-> RUnlatch(WLatch(ls, page_id, i), th.prev_page, i),
                    t |-> UnpinPage(t, th.prev_page), page_set |-> Append(th.page_set, page_id)]
              ELSE [ls |-> WLatch(ls, page_id, i), t |-> t,
                    page_set |-> Append(th.page_set, page_id)]
     ELSE IF th.prev_page # INVALID_PAGE_ID
       THEN [ls |-> RUnlatch(RLatch(ls, page_id, i), th.prev_page, i),
             t |-> UnpinPage(t, th.prev_page), page_set |-> th.page_set]
     ELSE [ls |-> UnlockPageSet(RLatch(ls, page_id, i), th.page_set),
           t |-> UnpinPageSet(t, th.page_set), page_set |-> <<>>]

\* one round of the loop of GetLeafPage, from the page latch it waits for to
\* the next: the thread latches page cur_page_id and releases what the
\* protocol lets it release; at a leaf it returns the leaf or, the leaf not
\* being safe on the first pass, starts over; at an internal page it fetches
\* the child
ConcLatchPage(i) ==
  LET th == thr[i]
      node == tree.pages[th.cur_page_id]
      a == AfterLatch(latches, tree, th, node, i)
  IN /\ th.pc = "latch_page"
     /\ IF TakesWLatch(th, node) THEN CanWLock(latches.rwlatch_[th.cur_page_id])
        ELSE CanRLock(latches.rwlatch_[th.cur_page_id])
     /\ IF IsLeafPage(node)
          THEN IF th.op # "FIND" /\ ~IsSafe(node, th.op) /\ th.is_first
                 THEN /\ latches' = UnlockPageSet(a.ls, a.page_set)
                      /\ tree' = UnpinPageSet(a.t, a.page_set)
                      /\ thr' = [thr EXCEPT ![i] =
                                   [Idle EXCEPT !.pc = "lock_root", !.op = th.op, !.key = th.key,
                                                !.is_first = FALSE]]
               ELSE /\ latches' = a.ls
                    /\ tree' = a.t
                    /\ thr' = [thr EXCEPT ![i] =
                                 [th EXCEPT !.pc = "act", !.page = th.cur_page_id,
                                            !.page_set = a.page_set,
                                            !.cur_page_id = INVALID_PAGE_ID,
                                            !.prev_page = INVALID_PAGE_ID]]
        ELSE /\ latches' = a.ls
             /\ tree' = FetchPage(a.t, ChildFor(node, th.key))
             /\ thr' = [thr EXCEPT ![i] =
                          [th EXCEPT !.page_set = a.page_set,
                                     !.cur_page_id = ChildFor(node, th.key),
                                     !.prev_page = th.cur_page_id]]
     /\ ConcFrame

\* thread i leaves the tree t, the latches ls and itself as th
ConcTakes(i, t, ls, th) ==
  /\ t.next_page_id_ <= MaxTreePageId + 1
  /\ tree' = t
  /\ latches' = ls
  /\ thr' = [thr EXCEPT ![i] = th]
  /\ ConcFrame

\* the call returns val: UnlockPageSet releases what the page set holds
ConcReturns(i, t, ls, val) ==
  ConcTakes(i, UnpinPageSet(t, thr[i].page_set), UnlockPageSet(ls, thr[i].page_set),
            Returned(thr[i], val))

\* Remove after HandleUnderFlow returned: the page set is unlocked; the
\* deleted pages are still to be deleted
RemoveReturns(i, t, ls) ==
  ConcTakes(i, Shared(UnpinPageSet(t, thr[i].page_set)), UnlockPageSet(ls, thr[i].page_set),
            [Idle EXCEPT !.pc = "delete_pages", !.op = thr[i].op, !.key = thr[i].key,
                         !.deleted_pages = t.deleted_])

\* HandleUnderFlow(page) up to the first latch it waits for: on the root it
\* returns; below the root it finds the parent in the page set and the
\* siblings in the parent, or throws, and fetches the sibling it latches first
UnderFlow(i, t, ls, page_id) ==
  LET th == thr[i]
      page == t.pages[page_id]
      parent_id == page.parent_page_id_
  IN IF IsRootPage(page)
       THEN \E t1 \in {RootUnderFlow(t, page_id)} : RemoveReturns(i, t1, ls)
     ELSE IF parent_id \notin PagesOf(th.page_set)
       THEN ConcTakes(i, Shared(t), ls, Stuck(th))
     ELSE \E sib \in {GetSiblings(t, page_id, parent_id)} :
            IF sib.index = -1 \/ (sib.left = INVALID_PAGE_ID /\ sib.right = INVALID_PAGE_ID)
              THEN ConcTakes(i, Shared(t), ls, Stuck(th))
            ELSE ConcTakes(i, Shared(FetchPage(t, IF sib.left # INVALID_PAGE_ID
                                                    THEN sib.left ELSE sib.right)),
                           ls,
                           [th EXCEPT !.pc = IF sib.left # INVALID_PAGE_ID THEN "latch_left"
                                             ELSE "latch_right",
                                      !.page = page_id, !.parent = parent_id,
                                      !.left = sib.left, !.right = sib.right,
                                      !.deleted_pages = t.deleted_])

UnpinSiblingPageKeeps(ls, left, right) == ls

\* UnpinSiblingPage(left_page, right_page): the latches after it
UnpinSiblingPage(ls, left, right) ==
  LET ls1 == IF left # INVALID_PAGE_ID THEN WUnlatch(ls, left) ELSE ls
  IN IF right # INVALID_PAGE_ID THEN WUnlatch(ls1, right) ELSE ls1

\* HandleUnderFlow(page) from the point where both siblings are latched
WithSiblings(i, t, ls) ==
  LET th == thr[i]
  IN \E t2 \in {UnpinPages(BorrowOrMerge(t, th.page, th.parent, th.left, th.right),
                            {th.left, th.right})},
        ls2 \in {UnpinSiblingPage(ls, th.left, th.right)} :
       IF MustMerge(t, th.left, th.right) /\ ParentUnderFlows(t2, th.parent)
         THEN UnderFlow(i, t2, ls2, th.parent)
         ELSE RemoveReturns(i, t2, ls2)

\* GetValue with the leaf latched: it looks the key up and releases the leaf
ActFind(i) ==
  ConcTakes(i, UnpinPage(tree, thr[i].page), RUnlatch(latches, thr[i].page, i),
            Returned(thr[i], B2I(LeafHas(tree.pages[thr[i].page].array_, thr[i].key))))

\* Insert with the leaf latched: it runs to its end
ActInsert(i) ==
  LET th == thr[i]
  IN \E t1 \in {InsertAtLeaf(tree, th.page, PagesOf(th.page_set), th.key, 2 * th.key,
                             LeafMaxSize, InternalMaxSize)} :
       IF t1.thrown THEN ConcTakes(i, Shared(t1), latches, Stuck(th))
       ELSE ConcReturns(i, t1, latches, B2I(~LeafHas(tree.pages[th.page].array_, th.key)))

\* Remove with the leaf latched: it runs to its end or to the first sibling
\* latch of HandleUnderFlow
ActRemove(i) ==
  LET th == thr[i]
      node == tree.pages[th.page]
  IN \E t1 \in {[tree EXCEPT !.pages[th.page].array_ = LeafRemove(@, th.key)]} :
       IF ~LeafHas(node.array_, th.key) THEN ConcReturns(i, tree, latches, 1)
       ELSE IF IsRootPage(node)
         THEN ConcReturns(i, IF GetSize(t1.pages[th.page]) = 0
                               THEN [t1 EXCEPT !.root_page_id_ = INVALID_PAGE_ID] ELSE t1,
                          latches, 1)
       ELSE IF GetSize(t1.pages[th.page]) >= GetMinSize(t1.pages[th.page])
         THEN ConcReturns(i, t1, latches, 1)
       ELSE UnderFlow(i, t1, latches, th.page)

\* the call proper, GetLeafPage having returned the leaf
ConcAct(i) ==
  /\ thr[i].pc = "act"
  /\ IF thr[i].op = "FIND" THEN ActFind(i)
     ELSE IF thr[i].op = "INSERT" THEN ActInsert(i)
     ELSE ActRemove(i)

\* HandleUnderFlow latches the left sibling; it fetches the right sibling or,
\* without one, goes on
ConcLatchLeft(i) ==
  LET th == thr[i]
  IN /\ th.pc = "latch_left"
     /\ CanWLock(latches.rwlatch_[th.left])
     /\ \E ls \in {WLatch(latches, th.left, i)} :
          IF th.right # INVALID_PAGE_ID
            THEN ConcTakes(i, FetchPage(tree, th.right), ls, [th EXCEPT !.pc = "latch_right"])
            ELSE \E t \in {WithDeleted(tree, th.deleted_pages)} : WithSiblings(i, t, ls)

\* HandleUnderFlow latches the right sibling and goes on
ConcLatchRight(i) ==
  LET th == thr[i]
  IN /\ th.pc = "latch_right"
     /\ CanWLock(latches.rwlatch_[th.right])
     /\ \E ls \in {WLatch(latches, th.right, i)}, t \in {WithDeleted(tree, th.deleted_pages)} :
          WithSiblings(i, t, ls)

\* the end of a Remove that went through HandleUnderFlow: DeletePage of
\* every page of the deleted-page set
ConcDeletePages(i) ==
  /\ thr[i].pc = "delete_pages"
  /\ \E t \in {DeletePages(WithDeleted(tree, thr[i].deleted_pages))} :
       ConcTakes(i, Shared(t), latches, Returned(thr[i], 1))

\* a step of thread i
ThreadStep(i) ==
  \/ ConcLockRoot(i)
  \/ ConcLatchPage(i)
  \/ ConcAct(i)
  \/ ConcLatchLeft(i)
  \/ ConcLatchRight(i)
  \/ ConcDeletePages(i)

NextConc ==
  \/ \E key \in ConcKeys : ConcSetup(key)
  \/ ConcFork
  \/ \E i \in Threads : ConcLockRoot(i)
  \/ \E i \in Threads : ConcLatchPage(i)
  \/ \E i \in Threads : ConcAct(i)
  \/ \E i \in Threads : ConcLatchLeft(i)
  \/ \E i \in Threads : ConcLatchRight(i)
  \/ \E i \in Threads : ConcDeletePages(i)

SpecConc == Init /\ [][NextConc]_vars

\* every thread that can take a step of its call eventually takes one: the
\* threads are scheduled by the operating system
SpecConcFair == SpecConc /\ \A i \in Threads : WF_vars(ThreadStep(i))


\* ================================================================ properties
PinnedFrame(f) == pages_[f].pin_count_ > 0

AllPinned == \A f \in Frames : pages_[f].page_id_ # INVALID_PAGE_ID /\ PinnedFrame(f)

\* the last call took frame ret.frame from the replacer
Evicted == ret.op \in {"NewPgImp", "FetchPgImp"} /\ ret.frame # -1

\* the last call was a Delete that released frame ret.frame
Deleted == ret.op = "DeletePgImp" /\ ret.frame # -1

PinnedNotEvictable ==
  \A f \in Frames :
    PinnedFrame(f) => ~IsEvictable(replacer_, f) /\ EvictVictim(replacer_) # f

PinnedPageStays ==
  \A f \in Frames :
    PinnedFrame(f) =>
      /\ pages_'[f].page_id_ = pages_[f].page_id_
      /\ ~(ret'.op \in {"NewPgImp", "FetchPgImp"} /\ ret'.frame = f)

\* C1: a frame whose page has pin_count > 0 is never an eviction victim: the
\* replacer's Evict does not return it, no call takes it as its victim, and
\* its page is not replaced.
C1_PinnedNeverEvicted == []PinnedNotEvictable /\ [][PinnedPageStays]_vars

\* a call evicted a frame while another frame was pinned
C1_Witness == Evicted /\ \E f \in Frames \ {ret.frame} : PinnedFrame(f)

\* C2: every page id is held by at most one frame, and the page table maps p
\* to f exactly when frame f's page_id is p.
C2_PageTableMatchesFrames ==
  \A p \in PageIds :
    /\ Cardinality({f \in Frames : pages_[f].page_id_ = p}) <= 1
    /\ \A f \in Frames :
         (HTFind(page_table_, p) /\ HTGet(page_table_, p) = f) <=> pages_[f].page_id_ = p

\* a Fetch brought a page back into a frame it evicted another page from
C2_Witness == ret.op = "FetchPgImp" /\ ret.frame # -1 /\ ret.val # Null

\* C3: free-list length plus number of page-table entries equals pool_size.
C3_FreePlusResidentIsPoolSize == Len(free_list_) + HTSize(page_table_) = PoolSize

\* a Delete released a frame while another page stayed resident
C3_Witness == Deleted /\ HTSize(page_table_) >= 1 /\ Len(free_list_) >= 1

\* C4: with every frame holding a pinned page, NewPage and Fetch of a
\* non-resident page return null; with the free list empty and some resident
\* page at pin count 0, NewPage succeeds.
C4_Step ==
  /\ (AllPinned /\ ret'.op = "NewPgImp") => ret'.val = Null
  /\ (AllPinned /\ ret'.op = "FetchPgImp" /\ ~Resident(ret'.arg)) => ret'.val = Null
  /\ (ret'.op = "NewPgImp" /\ \E f \in Frames : ~PinnedFrame(f)) => ret'.val # Null

C4_NullIffAllPinned == [][C4_Step]_vars

\* NewPage returned null on a pool whose frames are all pinned
C4_Witness == ret.op = "NewPgImp" /\ ret.val = Null /\ AllPinned

\* C5: bytes unpinned with is_dirty = true are not lost: while the page is
\* resident the frame holds them and is dirty or the disk has them; once the
\* page is evicted the disk has them.
C5_DirtyContentSurvives ==
  \A p \in PageIds :
    durable[p] # NoData =>
      IF Resident(p)
        THEN /\ pages_[FrameOf(p)].data_ = durable[p]
             /\ pages_[FrameOf(p)].is_dirty_ \/ disk[p] = durable[p]
      ELSE disk[p] = durable[p]

\* a page with non-zero bytes unpinned dirty has been evicted
C5_Witness == \E p \in PageIds : durable[p] > 0 /\ ~Resident(p) /\ Evicted

\* C6: a successful Unpin(p, is_dirty) sets dirty to (old OR is_dirty), and a
\* set dirty flag is cleared only by Flush, FlushAll, eviction or Delete.
C6_Step ==
  /\ (ret'.op = "UnpinPgImp" /\ ret'.val = 1) =>
       pages_'[FrameOf(ret'.arg)].is_dirty_ =
         (pages_[FrameOf(ret'.arg)].is_dirty_ \/ ret'.flag = 1)
  /\ \A f \in Frames :
       (pages_[f].is_dirty_ /\ ~pages_'[f].is_dirty_) =>
         \/ ret'.op \in {"FlushPgImp", "FlushAllPgsImp"}
         \/ ret'.op = "DeletePgImp" /\ ret'.frame = f
         \/ ret'.op \in {"NewPgImp", "FetchPgImp"} /\ ret'.frame = f

C6_UnpinOrsDirty == [][C6_Step]_vars

\* Unpin(p, false) succeeded on a page that is dirty
C6_Witness ==
  /\ ret.op = "UnpinPgImp" /\ ret.val = 1 /\ ret.flag = 0
  /\ Resident(ret.arg) /\ pages_[FrameOf(ret.arg)].is_dirty_

\* C7: Unpin returns false and changes nothing when the page is not resident
\* or its pin count is 0; pin_count is never negative.
C7_Step ==
  (ret'.op = "UnpinPgImp" /\ (~Resident(ret'.arg) \/ ~PinnedFrame(FrameOf(ret'.arg)))) =>
    /\ ret'.val = 0
    /\ UNCHANGED <<pages_, free_list_, page_table_, replacer_, next_page_id_, disk>>

C7_UnpinRefused ==
  [](\A f \in Frames : pages_[f].pin_count_ >= 0) /\ [][C7_Step]_vars

\* Unpin was refused on a resident page whose pin count is 0
C7_Witness ==
  /\ ret.op = "UnpinPgImp" /\ ret.val = 0
  /\ Resident(ret.arg) /\ pages_[FrameOf(ret.arg)].pin_count_ = 0

\* C8: Delete(p) returns true and changes nothing when p is not resident,
\* returns false and changes nothing when p is pinned, and otherwise returns
\* true with p out of the page table, its frame on the free list, untracked
\* by the replacer, with page_id invalid and the dirty flag cleared.
C8_Step ==
  ret'.op = "DeletePgImp" =>
    LET p == ret'.arg
    IN IF ~Resident(p)
         THEN /\ ret'.val = 1
              /\ UNCHANGED <<pages_, free_list_, page_table_, replacer_, next_page_id_, disk>>
       ELSE IF PinnedFrame(FrameOf(p))
         THEN /\ ret'.val = 0
              /\ UNCHANGED <<pages_, free_list_, page_table_, replacer_, next_page_id_, disk>>
       ELSE LET f == FrameOf(p)
            IN /\ ret'.val = 1
               /\ ~HTFind(page_table_', p)
               /\ InSeq(free_list_', f)
               /\ ~Tracked(replacer_', f)
               /\ pages_'[f].page_id_ = INVALID_PAGE_ID
               /\ ~pages_'[f].is_dirty_

C8_DeleteCases == [][C8_Step]_vars

\* Delete removed a resident, unpinned page
C8_Witness ==
  /\ Deleted /\ ret.val = 1
  /\ InSeq(free_list_, ret.frame) /\ ~Tracked(replacer_, ret.frame)
  /\ pages_[ret.frame].page_id_ = INVALID_PAGE_ID

\* ------------------------------------------------ replacer called directly
EvictableFrames == {f \in DOMAIN replacer_.entries_ : replacer_.entries_[f].is_evictable_}

\* fewer than k_ accesses: backward k-distance +infinity
InfiniteDistance(f) == Count(acc, f) < replacer_.k_

\* position in the access history of f's k-th most recent access
KthRecentAccess(f) == FirstPos(acc, f)

C9_Step ==
  ret'.op = "Evict" =>
    IF EvictableFrames = {} THEN ret'.val = 0
    ELSE /\ ret'.val = 1
         /\ ret'.frame \in EvictableFrames
         /\ (\E f \in EvictableFrames : InfiniteDistance(f)) => InfiniteDistance(ret'.frame)
         /\ (\A f \in EvictableFrames : ~InfiniteDistance(f)) =>
              \A f \in EvictableFrames : KthRecentAccess(ret'.frame) <= KthRecentAccess(f)

\* C9: Evict returns the evictable frame with the largest k-th backward
\* distance: a frame with fewer than k accesses counts as +infinity, and among
\* frames with at least k accesses the victim is the one whose k-th most
\* recent access is the oldest.
C9_EvictsLargestKDistance == [][C9_Step]_vars

\* C10: Size() equals the number of tracked frames whose evictable bit is set.
C10_SizeIsEvictableCount == Size(replacer_) = Cardinality(EvictableFrames)

\* the last call was the first RecordAccess of frame ret.arg
FirstAccess ==
  /\ ret'.op = "RecordAccess"
  /\ ~Tracked(replacer_, ret'.arg)
  /\ Tracked(replacer_', ret'.arg)

C11_Step ==
  FirstAccess =>
    /\ ~IsEvictable(replacer_', ret'.arg)
    /\ EvictVictim(replacer_') # ret'.arg
    /\ Size(replacer_') = Size(replacer_)

\* C11: a frame that has just become tracked by its first RecordAccess is
\* not evictable: Evict would not return it and Size() does not count it
\* (Size() is what it was before the access).
C11_FirstAccessNotEvictable == [][C11_Step]_vars

IsPrefix(a, b) == Len(a) <= Len(b) /\ \A i \in 1 .. Len(a) : a[i] = b[i]

\* RecordAccess on frames 1,2,3,1,2,3,1,2 in that order
AccessScript == <<1, 2, 3, 1, 2, 3, 1, 2>>

\* the scenario as stated: the Evict calls return 3, then 2, then 1, and
\* Size() is then 0
C12_AsStated ==
  log = AccessScript =>
    /\ IsPrefix(evicted, <<3, 2, 1>>)
    /\ Len(evicted) = 3 => Size(replacer_) = 0

\* C12: with k = 2, after RecordAccess on frames 1,2,3,1,2,3,1,2 and all three
\* frames marked evictable, successive Evict calls return frame 3, then
\* frame 1, then frame 2, and the replacer then tracks no frame and a further
\* Evict fails.
C12_ScenarioEvictionOrder ==
  log = AccessScript =>
    /\ IsPrefix(evicted, <<3, 1, 2>>)
    /\ Len(evicted) = 3 =>
         DOMAIN replacer_.entries_ = {} /\ EvictVictim(replacer_) = -1

C12_Witness == LRUK_K = 2 /\ log = AccessScript /\ Len(evicted) = 3

\* what Find reports of every key is what the map holds, and the table
\* stores one pair per key of the map
TableIsMap ==
  /\ \A key \in Keys :
       /\ HTFind(table, key) <=> key \in DOMAIN shadow
       /\ HTFind(table, key) => HTGet(table, key) = shadow[key]
  /\ HTSize(table) = Cardinality(DOMAIN shadow)

C13_Step ==
  /\ ret'.op = "Find" =>
       ret'.val = IF ret'.arg \in DOMAIN shadow THEN shadow[ret'.arg] ELSE Null
  /\ ret'.op = "Remove" => ret'.val = B2I(ret'.arg \in DOMAIN shadow)

\* C13: the hash table behaves as a map: Find(k) returns the value of the
\* latest Insert(k, v) that no Remove(k) followed and fails when there is
\* none, Insert on a present key overwrites without adding a second entry,
\* and Remove(k) returns true exactly when k was present, bucket splits and
\* directory doubling included.
C13_BehavesAsMap == []TableIsMap /\ [][C13_Step]_vars

C13_Witness ==
  /\ table.global_depth_ >= 2
  /\ table.num_buckets_ >= 3
  /\ ret.op = "Remove" /\ ret.val = 1
  /\ Cardinality(DOMAIN shadow) >= 2

\* GetLocalDepth(dir_index)
LocalDepth(h, i) == h.bkts[h.dir_[i + 1]].depth_

\* C14: the directory has exactly 2^global_depth slots, every bucket has
\* local_depth <= global_depth, and two directory indices point to the same
\* bucket exactly when they agree on the low local_depth bits of the bucket.
C14_DirectoryWellFormed ==
  /\ Len(table.dir_) = Pow2(table.global_depth_)
  /\ \A i \in 0 .. Len(table.dir_) - 1 : LocalDepth(table, i) <= table.global_depth_
  /\ \A i, j \in 0 .. Len(table.dir_) - 1 :
       table.dir_[i + 1] = table.dir_[j + 1]
         <=> i % Pow2(LocalDepth(table, i)) = j % Pow2(LocalDepth(table, i))

\* a directory in which one bucket is shared by several slots and another is not
C14_Witness ==
  /\ table.global_depth_ >= 2
  /\ \E i, j \in 0 .. Len(table.dir_) - 1 :
       /\ LocalDepth(table, i) < table.global_depth_
       /\ LocalDepth(table, j) = table.global_depth_

\* ---- the B+ tree
Range(s) == {s[i] : i \in 1 .. Len(s)}

RECURSIVE PagesUnder(_, _)
\* the ids of the pages of the subtree of page_id
PagesUnder(t, page_id) ==
  IF IsLeafPage(t.pages[page_id]) THEN {page_id}
  ELSE {page_id} \cup UNION {PagesUnder(t, c[2]) : c \in Range(t.pages[page_id].array_)}

\* the pages of the tree
TreePages(t) == IF IsEmpty(t) THEN {} ELSE PagesUnder(t, t.root_page_id_)

Leaves(t) == {p \in TreePages(t) : IsLeafPage(t.pages[p])}

RECURSIVE PairsUnder(_, _)
\* the key/value pairs in the leaves of the subtree of page_id
PairsUnder(t, page_id) ==
  IF IsLeafPage(t.pages[page_id]) THEN Range(t.pages[page_id].array_)
  ELSE UNION {PairsUnder(t, c[2]) : c \in Range(t.pages[page_id].array_)}

KeysUnder(t, page_id) == {e[1] : e \in PairsUnder(t, page_id)}

\* the key/value pairs the tree holds
Contents(t) == IF IsEmpty(t) THEN {} ELSE PairsUnder(t, t.root_page_id_)

\* the key/value pairs of the map kv
KvPairs == {<<k, kv[k]>> : k \in DOMAIN kv}

\* what GetValue reports of every key is what the map holds
TreeIsMap ==
  ~IsEmpty(tree) =>
    \A key \in TreeKeys :
      /\ GetValueFound(tree, key) <=> key \in DOMAIN kv
      /\ GetValueFound(tree, key) => GetValueResult(tree, key) = kv[key]

\* a GetValue call answers by the map, and so would one after the step
C15_Step ==
  /\ TreeIsMap'
  /\ ret'.op = "GetValue" =>
       /\ ret'.flag = B2I(ret'.arg \in DOMAIN kv)
       /\ ret'.val = IF ret'.arg \in DOMAIN kv THEN kv[ret'.arg] ELSE Null

\* C15: after any sequence of Insert calls with distinct keys, the empty one
\* included, GetValue(k) returns true with the inserted value for every
\* inserted key k and false for every key that was never inserted.
C15_GetValueMatchesInserts == [][C15_Step]_vars

\* kv is unchanged by an Insert exactly when its key was in kv
C16_Step ==
  ret'.op = "Insert" =>
    /\ ret'.val = 0 <=> kv' = kv
    /\ ret'.val = 0 => tree' = tree

\* C16: Insert returns false exactly when the key is already in the tree,
\* and then the keys, the values and the nodes of the tree are unchanged.
C16_InsertFalseIffPresent == [][C16_Step]_vars

\* a duplicate Insert, with the other value, on a tree of several nodes
C16_Witness ==
  /\ ret.op = "Insert" /\ ret.val = 0
  /\ Cardinality(TreePages(tree)) >= 3

\* Insert(key, value) followed by Remove(key)
InsertThenRemove(t, key, value) ==
  TreeRemove(TreeInsert(t, key, value, LeafMaxSize, InternalMaxSize), key)

\* C17: for a key that is not in the tree, Insert(key, v) followed by
\* Remove(key) leaves the tree with the key/value pairs it had before,
\* also when the insert splits nodes and the remove borrows or merges.
C17_InsertRemoveRestores ==
  ~tree.thrown =>
    \A key \in TreeKeys \ DOMAIN kv :
      \A value \in TreeValues(key) :
        LET t == InsertThenRemove(tree, key, value)
        IN ~t.thrown /\ Contents(t) = Contents(tree)

\* a tree in which the insert of some key splits a leaf and the remove of
\* the key merges two nodes
C17_Witness ==
  /\ ~tree.thrown
  /\ Contents(tree) # {}
  /\ \E key \in TreeKeys \ DOMAIN kv :
       \E value \in TreeValues(key) :
         LET t1 == TreeInsert(tree, key, value, LeafMaxSize, InternalMaxSize)
             t2 == TreeRemove(t1, key)
         IN /\ t1.next_page_id_ > tree.next_page_id_
            /\ DOMAIN t2.pages # DOMAIN t1.pages

\* C18: after any sequence of Insert and Remove calls every node of the
\* tree but the root has min_size <= size <= max_size.
C18_NodeSizesInBounds ==
  \A p \in TreePages(tree) :
    ~IsRootPage(tree.pages[p]) =>
      /\ GetMinSize(tree.pages[p]) <= GetSize(tree.pages[p])
      /\ GetSize(tree.pages[p]) <= GetMaxSize(tree.pages[p])

\* a tree of three levels after a Remove that deleted a page
C18_Witness ==
  /\ ret.op = "Remove"
  /\ Cardinality(DOMAIN tree.pages) < tree.next_page_id_ - 1
  /\ \E p \in TreePages(tree) :
       /\ ~IsLeafPage(tree.pages[p])
       /\ ~IsRootPage(tree.pages[p])

RECURSIVE ChainFrom(_, _, _)
\* the pages met by following next_page_id_ from page_id, at most fuel of them
ChainFrom(t, page_id, fuel) ==
  IF page_id = INVALID_PAGE_ID \/ fuel = 0 THEN <<>>
  ELSE IF page_id \notin DOMAIN t.pages THEN <<page_id>>
  ELSE <<page_id>> \o ChainFrom(t, t.pages[page_id].next_page_id_, fuel - 1)

\* the leaves in the order of the leaf chain
LeafChain(t) ==
  IF IsEmpty(t) THEN <<>>
  ELSE ChainFrom(t, LeftmostFrom(t, t.root_page_id_), t.next_page_id_)

RECURSIVE ChainKeys(_, _)
\* the keys of the leaves of a chain, in the order they are met
ChainKeys(t, chain) ==
  IF chain = <<>> THEN <<>>
  ELSE (IF Head(chain) \in DOMAIN t.pages
          THEN [i \in 1 .. GetSize(t.pages[Head(chain)]) |-> KeyAt(t.pages[Head(chain)], i - 1)]
          ELSE <<>>)
       \o ChainKeys(t, Tail(chain))

StrictlyIncreasing(s) == \A i \in 1 .. Len(s) - 1 : s[i] < s[i + 1]

\* C19: following next_page_id from the leftmost leaf visits every leaf of
\* the tree exactly once and yields every key of the tree exactly once, in
\* strictly increasing order.
C19_LeafChainSorted ==
  ~tree.thrown =>
    /\ Range(LeafChain(tree)) = Leaves(tree)
    /\ Len(LeafChain(tree)) = Cardinality(Leaves(tree))
    /\ StrictlyIncreasing(ChainKeys(tree, LeafChain(tree)))
    /\ Range(ChainKeys(tree, LeafChain(tree))) = DOMAIN kv

\* a chain of four leaves or more after a Remove that deleted a page
C19_Witness ==
  /\ ret.op = "Remove"
  /\ Cardinality(DOMAIN tree.pages) < tree.next_page_id_ - 1
  /\ Len(LeafChain(tree)) >= 4

\* C20: in every internal node, for every separator key[i], every key of
\* the subtree of value[i] is >= key[i] and every key of the subtree of
\* value[i-1] is < key[i].
C20_SeparatorsBoundSubtrees ==
  \A p \in TreePages(tree) :
    ~IsLeafPage(tree.pages[p]) =>
      \A i \in 1 .. GetSize(tree.pages[p]) - 1 :
        /\ \A k \in KeysUnder(tree, ValueAt(tree.pages[p], i)) : k >= KeyAt(tree.pages[p], i)
        /\ \A k \in KeysUnder(tree, ValueAt(tree.pages[p], i - 1)) : k < KeyAt(tree.pages[p], i)

\* a tree of three levels whose root separator is not a key of the tree
C20_Witness ==
  /\ ~IsEmpty(tree)
  /\ ~IsLeafPage(tree.pages[tree.root_page_id_])
  /\ ~IsLeafPage(tree.pages[ValueAt(tree.pages[tree.root_page_id_], 0)])
  /\ KeyAt(tree.pages[tree.root_page_id_], 1) \notin DOMAIN kv

\* how often page_id is a child of the node
ChildCount(n, page_id) == Cardinality({i \in 1 .. GetSize(n) : n.array_[i][2] = page_id})

\* C21: after any sequence of Insert and Remove calls, the parent_page_id of
\* every node but the root names an internal node of the tree whose child
\* array holds the node's page id exactly once, and the parent_page_id of
\* the root is invalid.
C21_ParentPointers ==
  \A p \in TreePages(tree) :
    IF p = tree.root_page_id_
      THEN tree.pages[p].parent_page_id_ = INVALID_PAGE_ID
    ELSE /\ tree.pages[p].parent_page_id_ \in TreePages(tree)
         /\ ~IsLeafPage(tree.pages[tree.pages[p].parent_page_id_])
         /\ ChildCount(tree.pages[tree.pages[p].parent_page_id_], p) = 1

\* a tree of three levels after a Remove that deleted a page, with an
\* internal node that is older than its parent
C21_Witness ==
  /\ ret.op = "Remove"
  /\ Cardinality(DOMAIN tree.pages) < tree.next_page_id_ - 1
  /\ \E p \in TreePages(tree) :
       /\ ~IsLeafPage(tree.pages[p])
       /\ ~IsRootPage(tree.pages[p])
       /\ tree.pages[p].parent_page_id_ > p

\* a Remove on a tree without a root returns and leaves the tree as it was
C22_Step ==
  (ret'.op = "Remove" /\ IsEmpty(tree)) =>
    /\ ret'.val = 1
    /\ tree' = tree
    /\ IsEmpty(tree')

\* C22: Remove on an empty tree, one never populated or one emptied by
\* earlier Removes, is a no-op: it returns, the tree stays empty and no
\* page is fetched, created or modified.
C22_RemoveOnEmptyIsNoOp == [][C22_Step]_vars

\* C25: between calls the header page's record holds the tree's current
\* root page id, after the first root creation, a root split, a root
\* collapse, the tree becoming empty and a root re-creation alike.
C25_HeaderHoldsRoot == ~tree.thrown => tree.header_ = tree.root_page_id_

\* the root after a Remove is not an internal page with a single child, and
\* when the Remove made a child of the old root the root, the old root was
\* deleted and the new root has no parent
C28_Step ==
  (ret'.op = "Remove" /\ ~tree'.thrown /\ ~IsEmpty(tree')) =>
    LET root_id == tree'.root_page_id_
    IN /\ ~IsLeafPage(tree'.pages[root_id]) => GetSize(tree'.pages[root_id]) >= 2
       /\ root_id # tree.root_page_id_ =>
            /\ ChildCount(tree.pages[tree.root_page_id_], root_id) = 1
            /\ tree.root_page_id_ \notin DOMAIN tree'.pages
            /\ tree'.pages[root_id].parent_page_id_ = INVALID_PAGE_ID

\* C28: after any Remove returns, the root is never an internal page with a
\* single child: when a merge leaves the root internal page with one child,
\* that child becomes the root and its parent_page_id is invalid.
C28_RootCollapses == [][C28_Step]_vars

\* a Remove replaced an internal root by one of its children, itself an
\* internal page
C28_Witness ==
  /\ ret.op = "Remove" /\ ret.flag = 1
  /\ ~IsEmpty(tree)
  /\ ~IsLeafPage(tree.pages[tree.root_page_id_])

\* ---- the buffer pool manager, continued
\* the frame page_id is in after the step
FrameAfter(page_id) == HTGet(page_table_', page_id)

\* a page NewPgImp returns is zeroed and clean, and so is, up to the bytes
\* read from disk, a page FetchPgImp loads over a victim
C29_Step ==
  /\ (ret'.op = "NewPgImp" /\ ret'.val # Null) =>
       /\ pages_'[FrameAfter(ret'.val)].data_ = 0
       /\ ~pages_'[FrameAfter(ret'.val)].is_dirty_
  /\ (ret'.op = "FetchPgImp" /\ ret'.frame # -1) =>
       /\ pages_'[FrameAfter(ret'.val)].data_ = disk'[ret'.val]
       /\ ~pages_'[FrameAfter(ret'.val)].is_dirty_

\* C29: when NewPage or Fetch takes a frame by evicting a victim, the
\* frame's buffer is zeroed and its dirty flag cleared before the new page
\* is installed, whether or not the victim was dirty; a page returned by
\* NewPage has an all-zero buffer and dirty = false.
C29_VictimFrameIsReset == [][C29_Step]_vars

\* ---- the replacer called directly, continued
\* the frame ids of a replacer created for replacer_size_ frames
ValidFrameIds(r) == 0 .. (r.replacer_size_ - 1)

\* a call with a frame id out of range throws and changes nothing, and no
\* frame id out of range has an entry
C30_Step ==
  /\ (ret'.op \in {"RecordAccess", "SetEvictable", "Remove"}
        /\ ret'.arg \notin ValidFrameIds(replacer_)) =>
       /\ ret'.val = Thrown
       /\ replacer_' = replacer_
  /\ DOMAIN replacer_'.entries_ \subseteq ValidFrameIds(replacer_')

\* C30: RecordAccess, SetEvictable and Remove called with a frame id outside
\* 0 .. N-1 of a replacer created for N frames fail with an error and leave
\* the replacer unchanged; no entry is ever created for such a frame id.
C30_RangeChecked == [][C30_Step]_vars

\* ---- the iterator
\* the elements of a set of keys in increasing order
SortedSeq(S) ==
  [i \in 1 .. Cardinality(S) |-> CHOOSE k \in S : Cardinality({j \in S : j < k}) = i - 1]

\* the keys an iteration started by Begin(key) is to produce
KeysFrom(key) == SortedSeq({k \in DOMAIN kv : k >= key})

\* C23: with no modification of the tree under way, iterating from
\* Begin(key) with ++ until End() yields exactly the keys of the tree that
\* are >= key, each once and in increasing order; Begin(key) is at the
\* smallest such key also when key is absent or that key is in a later
\* leaf, and is End() only when there is no such key.
C23_IterationFromBegin ==
  (walk.mods = "none" /\ ~tree.thrown) =>
    /\ IsPrefix(walk.keys, KeysFrom(walk.key))
    /\ IsEnd(iter) => walk.keys = KeysFrom(walk.key)

\* a key ++ produces after Removes is above the one before it and in the tree
C24_Step ==
  (ret'.op = "++" /\ walk.mods = "removes" /\ ~IsEnd(iter) /\ ~IsEnd(iter')) =>
    /\ iter'.value_[1] > iter.value_[1]
    /\ iter'.value_[1] \in DOMAIN kv

\* C24: an iterator obtained before a Remove and advanced with ++ after it,
\* or between several, still produces increasing keys, each in the tree
\* when it is produced, also when the Remove shifts entries in, borrows
\* into, or merges away the leaf the iterator is on.
C24_IterationAcrossRemove == [][C24_Step]_vars

\* ---- concurrent callers
\* every thread's call has returned
ConcReturned == \A i \in Threads : thr[i].pc = "done"

\* the keys of a map after a call, and what the call returns on it
KeysAfter(m, op, key) ==
  IF op = "INSERT" THEN m \cup {key} ELSE IF op = "REMOVE" THEN m \ {key} ELSE m

RECURSIVE SequentialOrders(_, _)
\* the key sets the calls of the threads of T leave of the key set m, run one
\* after the other in some order
SequentialOrders(m, T) ==
  IF T = {} THEN {m}
  ELSE UNION {SequentialOrders(KeysAfter(m, thr[i].op, thr[i].key), T \ {i}) : i \in T}

\* the keys GetValue finds in the tree
FoundKeys(t) == IF IsEmpty(t) THEN {} ELSE {k \in ConcKeys : GetValueFound(t, k)}

\* C26: once the concurrent Insert, Remove and GetValue calls of the threads
\* have all returned, the tree is what some sequential order of the calls
\* leaves of the tree they started on: the keys found in it are the keys of
\* that order's result, no other key is stored in a leaf, and the leaf chain
\* lists them in ascending order.
C26_FinalTreeIsSequential ==
  ConcReturned =>
    \E m \in SequentialOrders(DOMAIN kv, Threads) :
      /\ FoundKeys(tree) = m
      /\ {e[1] : e \in Contents(tree)} = m
      /\ ChainKeys(tree, LeafChain(tree)) = SortedSeq(m)

\* an Insert and a Remove of two threads both took effect, the Remove by
\* merging pages
C26_Witness ==
  /\ ConcReturned
  /\ \E i, j \in Threads :
       /\ thr[i].op = "INSERT" /\ thr[i].val = 1
       /\ thr[j].op = "REMOVE" /\ thr[j].key \in DOMAIN kv /\ thr[j].key # thr[i].key
  /\ Cardinality(DOMAIN tree.pages) < tree.next_page_id_ - 1

\* C27: concurrent Insert, Remove and GetValue never deadlock; under fair
\* scheduling every call a thread started eventually returns.
C27_EveryCallReturns == \A i \in Threads : (thr[i].pc # "idle") ~> (thr[i].pc = "done")

\* ---- a bucket split of the hash table
\* bit number depth of the number n
BitOf(n, depth) == (n \div Pow2(depth)) % 2

\* the directory slots (from 0) of h that refer to bucket bi
SlotsOf(h, bi) == {i \in 0 .. Len(h.dir_) - 1 : h.dir_[i + 1] = bi}

\* the split of bucket bi that took h0 to h1 is as C38 says
SplitIsLocal(h0, h1, bi) ==
  LET old == h0.bkts[bi]
      old_depth == old.depth_
  IN /\ Len(h1.dir_) = Len(h0.dir_)
     /\ \A i \in 0 .. Len(h0.dir_) - 1 :
          i \notin SlotsOf(h0, bi) => h1.bkts[h1.dir_[i + 1]] = h0.bkts[h0.dir_[i + 1]]
     /\ \A i \in SlotsOf(h0, bi) :
          LET b == h1.bkts[h1.dir_[i + 1]]
          IN /\ b.depth_ = old_depth + 1
             /\ Range(b.list_) = {e \in Range(old.list_) :
                                    BitOf(Hash(e[1]), old_depth) = BitOf(i, old_depth)}
             /\ \A j \in SlotsOf(h0, bi) :
                  h1.dir_[j + 1] = h1.dir_[i + 1] <=> BitOf(j, old_depth) = BitOf(i, old_depth)
     /\ \A e \in Range(old.list_) : HTFind(h1, e[1]) /\ HTGet(h1, e[1]) = e[2]
     /\ \A i \in 0 .. Len(h1.dir_) - 1 : Len(h1.bkts[h1.dir_[i + 1]].list_) <= BucketSize
     /\ h1.num_buckets_ = h0.num_buckets_ + 1
     /\ Cardinality(Range(h1.dir_)) = Cardinality(Range(h0.dir_)) + 1

RECURSIVE SplitsAreLocal(_, _)
\* every split the loop of Insert(key, _) makes from h on is as C38 says
SplitsAreLocal(h, key) ==
  LET bi == h.dir_[IndexOf(h, key) + 1]
      h0 == IF h.bkts[bi].depth_ = h.global_depth_ THEN Expansion(h) ELSE h
      h1 == RedistributeBucket(h0, bi, key)
  IN BucketIsFull(h.bkts[bi]) => SplitIsLocal(h0, h1, bi) /\ SplitsAreLocal(h1, key)

\* C38: a bucket split changes only the directory slots that referred to
\* the split bucket: each of them then points to the new bucket that bit
\* old_depth of its index selects, every entry of the old bucket is in the new
\* bucket that the same bit of its hash selects, no bucket holds more than
\* bucket_size entries, and the bucket count rises by exactly one.  Checked on
\* every split that an Insert of an absent key makes from a reachable table.
C38_SplitIsLocal == \A key \in Keys : ~HTFind(table, key) => SplitsAreLocal(table, key)

\* a table that splits had split twice before, and the Insert of an absent key
\* now splits a full bucket that several slots share
C38_Witness ==
  /\ ret.op = "Insert"
  /\ table.num_buckets_ >= 3
  /\ \E key \in Keys :
       /\ ~HTFind(table, key)
       /\ BucketIsFull(BucketOf(table, key))
       /\ BucketOf(table, key).depth_ < table.global_depth_

\* ---- the frames below k_ accesses
\* the evictable frames with fewer than k_ accesses
YoungEvictable == {f \in EvictableFrames : InfiniteDistance(f)}

C37_Step ==
  ret'.op = "Evict" =>
    /\ YoungEvictable # {} =>
         /\ ret'.val = 1
         /\ ret'.frame \in YoungEvictable
         /\ \A f \in YoungEvictable : FirstPos(acc, ret'.frame) <= FirstPos(acc, f)
    /\ (ret'.val = 1 /\ ret'.frame \notin YoungEvictable) => YoungEvictable = {}

\* C37: if some evictable frame has fewer than k accesses, Evict returns the
\* evictable frame with fewer than k accesses whose first access is the
\* oldest, whatever accesses below k followed it; a frame with at least k
\* accesses is evicted only when no evictable frame has fewer than k.
C37_YoungEvictedByFirstAccess == [][C37_Step]_vars

\* Evict has just returned a frame below k although another evictable frame,
\* accessed more than once and still below k, was in the replacer
C37_Witness ==
  /\ ret.op = "Evict" /\ ret.val = 1
  /\ \E f \in DOMAIN replacer_.entries_ :
       /\ f # ret.frame
       /\ replacer_.entries_[f].is_evictable_
       /\ replacer_.entries_[f].hint_count_ >= 2
       /\ replacer_.entries_[f].hint_count_ < replacer_.k_

\* ---- pins of the tree's pages
\* no call on the tree is in progress
NoCallInProgress == \A i \in Threads : thr[i].pc \in {"idle", "done"}

\* the pin count of the frame of page p
PinCount(p) == tree.pin_count_[p]

HoldsNoLatch(i) ==
  /\ latches.root_latch_.w # i /\ i \notin latches.root_latch_.r
  /\ \A p \in DOMAIN latches.rwlatch_ :
       latches.rwlatch_[p].w # i /\ i \notin latches.rwlatch_[p].r

\* the pages a thread has pinned, by where it is in its call: the pages of its
\* page set, in GetLeafPage the page it waits for and the page above it, in
\* GetValue the leaf, in HandleUnderFlow the siblings fetched so far
PinnedBy(th) ==
  (IF th.pc \in {"latch_page", "act", "latch_left", "latch_right"}
     THEN PagesOf(th.page_set) ELSE {})
  \cup (IF th.pc = "latch_page" THEN {th.cur_page_id, th.prev_page} ELSE {})
  \cup (IF th.pc = "act" /\ th.op = "FIND" THEN {th.page} ELSE {})
  \cup (IF th.pc = "latch_left" THEN {th.left} ELSE {})
  \cup (IF th.pc = "latch_right" THEN {th.left, th.right} ELSE {})

\* every pin is the pin of a thread that is entitled to it
PinsAreHeld ==
  \A p \in DOMAIN tree.pin_count_ :
    PinCount(p) = Cardinality({j \in Threads : p \in PinnedBy(thr[j])})

\* thread i is about to start the pessimistic descent
Restarting(i) == thr[i].pc = "lock_root" /\ ~thr[i].is_first

\* C31: when an optimistic Insert or Remove reaches a leaf that is not safe,
\* the thread releases every latch it holds (the leaf's, and root_latch_ if
\* still held) and unpins those pages before the pessimistic descent starts:
\* a thread about to start it holds no latch (so it never takes root_latch_
\* while it holds it) and no pin, every pin being the pin of another thread.
C31_RestartHoldsNothing ==
  \A i \in Threads : Restarting(i) => HoldsNoLatch(i) /\ PinnedBy(thr[i]) = {} /\ PinsAreHeld

\* a thread is about to start the pessimistic descent of a tree with an
\* internal root while the other thread holds latches and pins
C31_Witness ==
  /\ \E i, j \in Threads :
       /\ Restarting(i)
       /\ ~IsLeafPage(tree.pages[tree.root_page_id_])
       /\ i # j /\ ~HoldsNoLatch(j) /\ PinnedBy(thr[j]) # {}

\* ---- the pessimistic descent
\* a page absorbs the operation: an INSERT does not split it, a REMOVE does
\* not leave it under its minimum
SafeFor(n, op) ==
  IF op = "INSERT"
    THEN IF IsLeafPage(n) THEN GetSize(n) < n.max_size_ - 1 ELSE GetSize(n) < n.max_size_
    ELSE GetSize(n) > GetMinSize(n)

RECURSIVE PathFrom(_, _, _)
\* the pages a search for key visits from page_id down to the leaf
PathFrom(t, page_id, key) ==
  IF IsLeafPage(t.pages[page_id]) THEN <<page_id>>
  ELSE <<page_id>> \o PathFrom(t, ChildFor(t.pages[page_id], key), key)

\* the positions of page_id in a path
PositionsOf(path, page_id) == {j \in DOMAIN path : path[j] = page_id}

\* the search path for key from the root down to the page last
PathDownTo(t, key, last) ==
  LET path == PathFrom(t, t.root_page_id_, key)
  IN SubSeq(path, 1, CHOOSE j \in PositionsOf(path, last) : TRUE)

\* root_latch_ and then the pages of a path, from the deepest page of the
\* path that is safe for op on, or all of it when no page is safe
ChainFromDeepestSafe(t, op, path) ==
  LET all == <<INVALID_PAGE_ID>> \o path
      safe == {j \in DOMAIN all : j > 1 /\ SafeFor(t.pages[all[j]], op)}
  IN IF safe = {} THEN all
     ELSE SubSeq(all, CHOOSE j \in safe : \A m \in safe : m <= j, Len(all))

\* thread i holds exactly what page_set names, all of it exclusively
HoldsExactly(i, page_set) ==
  LET held == {page_set[j] : j \in DOMAIN page_set}
  IN /\ (latches.root_latch_.w = i) <=> (INVALID_PAGE_ID \in held)
     /\ i \notin latches.root_latch_.r
     /\ \A p \in DOMAIN latches.rwlatch_ :
          /\ (latches.rwlatch_[p].w = i) <=> (p \in held)
          /\ i \notin latches.rwlatch_[p].r

\* thread i is in the pessimistic descent and has latched the page last
DescentReached(i, last) ==
  /\ ~thr[i].is_first /\ thr[i].op # "FIND"
  /\ \/ thr[i].pc = "latch_page" /\ thr[i].prev_page = last /\ last # INVALID_PAGE_ID
     \/ thr[i].pc = "act" /\ thr[i].page = last

\* C32: in a pessimistic descent a page found safe releases root_latch_ and
\* every ancestor of the held set, and a page found unsafe releases nothing:
\* after each page latched, and so at the leaf, the held set is the chain
\* from the deepest safe page of the search path (from the placeholder of
\* root_latch_ when no page was safe) down to the page latched last, and the
\* thread holds the write latches of exactly that chain.
C32_HeldSetIsChainFromDeepestSafe ==
  \A i \in Threads : \A last \in DOMAIN tree.pages :
    DescentReached(i, last) =>
      /\ PositionsOf(PathFrom(tree, tree.root_page_id_, thr[i].key), last) # {}
      /\ thr[i].page_set = ChainFromDeepestSafe(tree, thr[i].op,
                                                PathDownTo(tree, thr[i].key, last))
      /\ HoldsExactly(i, thr[i].page_set)

\* a pessimistic descent is at its leaf having released root_latch_ and the
\* root at a safe page below the root, and the other thread is in its call
C32_Witness ==
  \E i, j \in Threads :
    /\ i # j /\ thr[j].pc \notin {"idle", "done"}
    /\ thr[i].pc = "act" /\ ~thr[i].is_first /\ thr[i].op # "FIND"
    /\ Len(thr[i].page_set) = 1
    /\ thr[i].page_set[1] = thr[i].page
    /\ thr[i].page # tree.root_page_id_

\* ---- root_page_id_
\* thread i took the step
Stepped(i) == thr'[i] # thr[i]

\* thread i holds root_latch_ in either mode
HoldsRootLatch(i) == latches.root_latch_.w = i \/ i \in latches.root_latch_.r

\* thread i read root_page_id_ and has not latched the root page yet
ReadTheRoot(i) == thr[i].pc = "latch_page" /\ thr[i].prev_page = INVALID_PAGE_ID

\* a step of a call that writes root_page_id_ is the step of a thread that
\* holds root_latch_ exclusively, from before the step or, the step being the
\* one that takes root_latch_ and starts a new tree, from the step on; and a
\* thread that read root_page_id_ holds root_latch_ and what it read is the
\* root
C33_Step ==
  /\ (~AllIdle /\ tree'.root_page_id_ # tree.root_page_id_) =>
       \E i \in Threads :
         /\ Stepped(i)
         /\ IF thr[i].pc = "lock_root" THEN latches'.root_latch_.w = i
            ELSE latches.root_latch_.w = i
  /\ \A i \in Threads :
       ReadTheRoot(i)' => HoldsRootLatch(i)' /\ thr'[i].cur_page_id = tree'.root_page_id_

\* C33: root_page_id_ is written only by a thread that holds root_latch_
\* exclusively (first root, root split, root collapse, tree becoming empty),
\* and a descent reads root_page_id_ only while it holds root_latch_, shared
\* or exclusive.
C33_RootIdUnderRootLatch == [][C33_Step]_vars

\* the tree was built as one leaf, a thread's Insert has split it and given
\* it a new root, and the other thread is in its call holding a latch
C33_Witness ==
  \E i, j \in Threads :
    /\ i # j
    /\ Cardinality(DOMAIN kv) < LeafMaxSize
    /\ ~IsEmpty(tree) /\ ~IsLeafPage(tree.pages[tree.root_page_id_])
    /\ thr[i].pc = "done" /\ thr[i].op = "INSERT" /\ thr[i].val = 1
    /\ ~HoldsNoLatch(j)

\* ---- parent_page_id_
\* thread i holds the write latch of page p while it takes its step: it held
\* it before the step, or p is the sibling whose latch the step takes
WriteLatchedIn(i, p) ==
  \/ latches.rwlatch_[p].w = i
  \/ thr[i].pc = "latch_left" /\ p = thr[i].left
  \/ thr[i].pc = "latch_right" /\ p = thr[i].right

\* the pages whose parent_page_id_ the step writes a new value to
Reparented ==
  {p \in DOMAIN tree.pages \cap DOMAIN tree'.pages :
     tree'.pages[p].parent_page_id_ # tree.pages[p].parent_page_id_}

C34_Step == \A i \in Threads : Stepped(i) => \A p \in Reparented : WriteLatchedIn(i, p)

\* C34: every write of a page's parent_page_id_ (new root after a split,
\* children moved by an internal split, borrow or merge, new root after a
\* collapse) is made by a thread that holds the write latch of that page.
C34_ParentIdUnderWriteLatch == [][C34_Step]_vars

\* ---- deferred deletions
\* the pages the step deletes
DeletedByStep == DOMAIN tree.pages \ DOMAIN tree'.pages

\* thread i is at the DeletePage loop of Remove
Deleting(i) == thr[i].pc = "delete_pages"

\* a step of a call deletes pages only as the DeletePage loop of a Remove,
\* and the thread that runs the loop holds no latch
C35_Step ==
  \A i \in Threads :
    Stepped(i) =>
      /\ DeletedByStep # {} => Deleting(i) /\ DeletedByStep \subseteq thr[i].deleted_pages
      /\ Deleting(i) => HoldsNoLatch(i)

\* C35: Remove calls DeletePage for the pages emptied by merges or by a root
\* collapse only after it released every page latch and root_latch_: no
\* DeletePage is issued while the removing thread holds a latch.
C35_DeleteAfterLatchesReleased == [][C35_Step]_vars

\* a Remove that merged is about to delete the emptied pages while the other
\* thread is in its call and holds a latch
C35_Witness ==
  \E i, j \in Threads :
    /\ i # j
    /\ Deleting(i) /\ thr[i].deleted_pages # {}
    /\ thr[i].deleted_pages \subseteq DOMAIN tree.pages
    /\ ~HoldsNoLatch(j)

\* ---- detached pages
\* the pages in the buffer pool that are not pages of the tree
Detached == DOMAIN tree.pages \ TreePages(tree)

\* the pages the Remove calls under way have still to delete
ToBeDeleted ==
  UNION {thr[i].deleted_pages :
           i \in {j \in Threads : thr[j].pc \in {"latch_left", "latch_right", "delete_pages"}}}

\* C36: every page a Remove detached from the tree (the right page of a
\* merge, a collapsed root, a root leaf emptied by removing the last key) has
\* been deleted through the buffer pool by the time that Remove returns, with
\* other threads reading and writing the tree: a page that is resident and
\* not a page of the tree is in the deleted-page set of a Remove that has not
\* returned yet.
C36_DetachedPagesAreDeleted == Detached \subseteq ToBeDeleted

\* ---- the parent in the page set
\* thread i has the leaf of a write latched and has not returned
Writing(i) == thr[i].pc \in {"act", "latch_left", "latch_right"} /\ thr[i].op # "FIND"

\* thread i has page p in its page set and holds its write latch
HeldFor(i, p) == p \in PagesOf(thr[i].page_set) /\ latches.rwlatch_[p].w = i

\* the split or the underflow of page p can reach the page above it
ReachesParent(i, p) == ~SafeFor(tree.pages[p], thr[i].op)

\* C39: whenever InsertInParent or HandleUnderFlow looks a page's parent up
\* in the page set, the parent is in the set and write-latched by the calling
\* thread, in every interleaving: a thread that has looked the parent up for
\* its siblings holds it, every page of a writer's page set that can split or
\* underflow has its parent held (root_latch_ for the root), and no call
\* fails on the lookup (a call that does not return started on a tree
\* without a root).
C39_ParentIsInPageSet ==
  \A i \in Threads :
    /\ thr[i].pc \in {"latch_left", "latch_right"} => HeldFor(i, thr[i].parent)
    /\ Writing(i) =>
         \A p \in PagesOf(thr[i].page_set) :
           ReachesParent(i, p) =>
             IF IsRootPage(tree.pages[p]) THEN latches.root_latch_.w = i
             ELSE HeldFor(i, tree.pages[p].parent_page_id_)
    /\ thr[i].pc = "stuck" => thr[i].page_set = <<>>

\* HandleUnderFlow has found the parent of an underflowing page in the page
\* set and waits for a sibling latch, and the other thread holds a latch
C39_Witness ==
  \E i, j \in Threads :
    /\ i # j
    /\ thr[i].pc \in {"latch_left", "latch_right"}
    /\ HeldFor(i, thr[i].parent)
    /\ tree.pages[thr[i].page].parent_page_id_ = thr[i].parent
    /\ ~HoldsNoLatch(j)

====
